---- MODULE Spec2Model ----
(***************************************************************************)
(* Model of the selection save/restore code of the rich-text editor:       *)
(* SelectionManager.exportSelection / importSelection / selectRange        *)
(* (src/dom/Selection.ts) over a small DOM: a forest of element, text and  *)
(* comment nodes, one live Selection holding at most one Range, and the    *)
(* DOM Range operations the code calls (setStart, setEnd, collapse,        *)
(* cloneRange, selectNodeContents, toString, collapsed).                   *)
(***************************************************************************)
EXTENDS Integers, Sequences, FiniteSets, TLC

\* ------------------------------------------------------------------ bounds
\* Number of nodes of a DOM forest (node 1 is the top element of the document).
MaxNodes == 3
\* Length of the data of a non-empty text node (text nodes are "" or this long).
TextLen == 2
\* Length of the data of a comment node.
CommentLen == 1
\* Number of distinct listener functions of each behaviour.
MaxListeners == 2
\* Number of registrations an EventEmitter holds at a time (all events together).
MaxRegistered == 3
\* Depth to which a listener's own emit() calls nest inside an emit().
MaxDepth == 1
\* Number of elements in the array a caller passes to the editor.
MaxInput == 2

\* ------------------------------------------------------- platform constants
ELEMENT_NODE == 1
TEXT_NODE == 3
COMMENT_NODE == 8
\* The Document node, parent of the top element; and the null reference.
DOCUMENT == 0
NULL == 0 - 1

Nodes == 1 .. MaxNodes

\* ------------------------------------------------------------------ the DOM
\* A DOM forest d: d.parent[n] is n's parentNode (DOCUMENT for node 1, NULL for
\* the root of a detached tree), d.nodeType[n] its nodeType, d.len[n] the length
\* of its data (text and comment nodes).  Node ids are in document order.

RECURSIVE IsInclusiveAncestor(_, _, _)
IsInclusiveAncestor(parent, a, n) ==
    IF n = a THEN TRUE
    ELSE IF n = NULL \/ n = DOCUMENT THEN FALSE
    ELSE IsInclusiveAncestor(parent, a, parent[n])

NodeShapes ==
    { [nodeType |-> ELEMENT_NODE, len |-> 0],
      [nodeType |-> COMMENT_NODE, len |-> CommentLen],
      [nodeType |-> TEXT_NODE, len |-> 0],
      [nodeType |-> TEXT_NODE, len |-> TextLen] }

\* Where node n (the next in document order after n-1) may hang: under an element
\* that is an inclusive ancestor of n-1, or nowhere (a new detached tree).
ParentChoices(d, n) ==
    {NULL} \cup { a \in 1 .. (n - 1) :
                    /\ d.nodeType[a] = ELEMENT_NODE
                    /\ IsInclusiveAncestor(d.parent, a, n - 1) }

RECURSIVE DocsOfSize(_)
DocsOfSize(n) ==
    IF n = 1
    THEN { [parent |-> <<DOCUMENT>>, nodeType |-> <<ELEMENT_NODE>>, len |-> <<0>>] }
    ELSE UNION { { [parent |-> Append(d.parent, p),
                    nodeType |-> Append(d.nodeType, s.nodeType),
                    len |-> Append(d.len, s.len)] :
                   p \in ParentChoices(d, n), s \in NodeShapes } :
                 d \in DocsOfSize(n - 1) }

Docs == DocsOfSize(MaxNodes)

nodeTypeOf(d, n) == IF n = DOCUMENT THEN 9 ELSE d.nodeType[n]

parentNode(d, n) == IF n = DOCUMENT THEN NULL ELSE d.parent[n]

\* node.childNodes, in document order.
RECURSIVE ChildrenFrom(_, _, _)
ChildrenFrom(d, n, i) ==
    IF i > MaxNodes THEN <<>>
    ELSE IF d.parent[i] = n THEN <<i>> \o ChildrenFrom(d, n, i + 1)
    ELSE ChildrenFrom(d, n, i + 1)

childNodes(d, n) == ChildrenFrom(d, n, 1)

\* The DOM "length" of a node: data length, or number of children.
NodeLength(d, n) ==
    IF n # DOCUMENT /\ d.nodeType[n] \in {TEXT_NODE, COMMENT_NODE}
    THEN d.len[n]
    ELSE Len(childNodes(d, n))

\* The root of the tree a node is in (DOCUMENT for attached nodes).
RECURSIVE RootOf(_, _)
RootOf(d, n) ==
    IF n = DOCUMENT THEN DOCUMENT
    ELSE IF d.parent[n] = NULL THEN n
    ELSE RootOf(d, d.parent[n])

IsDescendantOrSelf(d, n, root) == IsInclusiveAncestor(d.parent, root, n)

Elements(d) == { n \in Nodes : d.nodeType[n] = ELEMENT_NODE }

\* ----------------------------------------------------------- DOM Range (platform)
\* A Range is [sc, so, ec, eo]: start container/offset, end container/offset.

\* The child of ancestor a on the path down to its descendant n.
RECURSIVE ChildToward(_, _, _)
ChildToward(d, a, n) ==
    IF parentNode(d, n) = a THEN n ELSE ChildToward(d, a, parentNode(d, n))

\* node.index: the number of preceding siblings.
IndexOf(d, n) ==
    Cardinality({ m \in Nodes : m < n /\ d.parent[m] = d.parent[n] })

\* DOM "position of boundary point (nA, oA) relative to (nB, oB)" for two points
\* of one tree, for nA before nB in tree order: "after" only when nA is an
\* ancestor of nB and the child holding nB lies before offset oA.
PositionOrdered(d, nA, oA, nB, oB) ==
    IF IsInclusiveAncestor(d.parent, nA, nB) /\ IndexOf(d, ChildToward(d, nA, nB)) < oA
    THEN "after"
    ELSE "before"

Position(d, nA, oA, nB, oB) ==
    IF nA = nB
    THEN (IF oA = oB THEN "equal" ELSE IF oA < oB THEN "before" ELSE "after")
    ELSE IF nA > nB
    THEN (IF PositionOrdered(d, nB, oB, nA, oA) = "before" THEN "after" ELSE "before")
    ELSE PositionOrdered(d, nA, oA, nB, oB)

Thrown == [threw |-> TRUE]
Ok(r) == [threw |-> FALSE, range |-> r]

\* document.createRange(): a collapsed range at (document, 0).
createRange == [sc |-> DOCUMENT, so |-> 0, ec |-> DOCUMENT, eo |-> 0]

\* range.setStart(node, offset): IndexSizeError when offset exceeds the node's
\* length; the end follows the start when the start lands after it or in
\* another tree.
setStart(d, r, node, offset) ==
    IF offset > NodeLength(d, node) \/ offset < 0 THEN Thrown
    ELSE IF \/ RootOf(d, r.ec) # RootOf(d, node)
            \/ Position(d, node, offset, r.ec, r.eo) = "after"
         THEN Ok([sc |-> node, so |-> offset, ec |-> node, eo |-> offset])
         ELSE Ok([r EXCEPT !.sc = node, !.so = offset])

\* range.setEnd(node, offset): the mirror image of setStart.
setEnd(d, r, node, offset) ==
    IF offset > NodeLength(d, node) \/ offset < 0 THEN Thrown
    ELSE IF \/ RootOf(d, r.sc) # RootOf(d, node)
            \/ Position(d, node, offset, r.sc, r.so) = "before"
         THEN Ok([sc |-> node, so |-> offset, ec |-> node, eo |-> offset])
         ELSE Ok([r EXCEPT !.ec = node, !.eo = offset])

\* range.collapse(toStart)
collapse(r, toStart) ==
    IF toStart THEN [r EXCEPT !.ec = r.sc, !.eo = r.so]
    ELSE [r EXCEPT !.sc = r.ec, !.so = r.eo]

\* range.selectNodeContents(node)
selectNodeContents(d, node) ==
    [sc |-> node, so |-> 0, ec |-> node, eo |-> NodeLength(d, node)]

\* range.collapsed
collapsed(r) == r.sc = r.ec /\ r.so = r.eo

\* A node is contained in a range when it is in the range's tree, its start
\* (node, 0) is after the range's start and its end (node, length) is before
\* the range's end.
Contained(d, r, n) ==
    /\ RootOf(d, n) = RootOf(d, r.sc)
    /\ Position(d, n, 0, r.sc, r.so) = "after"
    /\ Position(d, n, NodeLength(d, n), r.ec, r.eo) = "before"

RECURSIVE SumLen(_, _)
SumLen(d, S) ==
    IF S = {} THEN 0
    ELSE LET n == CHOOSE x \in S : TRUE IN d.len[n] + SumLen(d, S \ {n})

\* range.toString().length: the stringifier concatenates the selected part of
\* the start node if it is a Text node, the data of every Text node the range
\* contains, and the selected part of the end node if it is a Text node.
toStringLength(d, r) ==
    IF r.sc = r.ec /\ nodeTypeOf(d, r.sc) = TEXT_NODE THEN r.eo - r.so
    ELSE (IF nodeTypeOf(d, r.sc) = TEXT_NODE THEN d.len[r.sc] - r.so ELSE 0)
         + SumLen(d, { n \in Nodes : d.nodeType[n] = TEXT_NODE /\ Contained(d, r, n) })
         + (IF nodeTypeOf(d, r.ec) = TEXT_NODE THEN r.eo ELSE 0)

\* ------------------------------------------------------- Selection (platform)
\* The live selection: sel.obj says whether document.getSelection() returns an
\* object at all; sel.ranges holds its ranges (at most one).
NoSelectionObject == [obj |-> FALSE, ranges |-> <<>>]
SelectionOf(ranges) == [obj |-> TRUE, ranges |-> ranges]

rangeCount(s) == Len(s.ranges)

removeAllRanges(s) == [s EXCEPT !.ranges = <<>>]

\* selection.addRange(range): ignored when the range is not in the document or
\* the selection already has a range.
addRange(d, s, r) ==
    IF RootOf(d, r.sc) # DOCUMENT THEN s
    ELSE IF rangeCount(s) # 0 THEN s
    ELSE [s EXCEPT !.ranges = <<r>>]

\* Every valid range of the document tree (both boundary points in attached
\* nodes, start not after end).
AttachedNodes(d) == { n \in Nodes : RootOf(d, n) = DOCUMENT }

DocumentRanges(d) ==
    { r \in [sc : AttachedNodes(d), so : 0 .. (MaxNodes + TextLen),
             ec : AttachedNodes(d), eo : 0 .. (MaxNodes + TextLen)] :
        /\ r.so <= NodeLength(d, r.sc)
        /\ r.eo <= NodeLength(d, r.ec)
        /\ Position(d, r.sc, r.so, r.ec, r.eo) # "after" }

\* The platform calls importSelection makes that the environment may reject (an
\* exception thrown by every call of that method), besides "none".
Faults == {"none", "setStart", "setEnd", "addRange"}

\* -------------------------------------------------- SelectionManager (the code)
\* A value of type SerializedSelection | null is <<>> (null) or <<snapshot>>.
Snapshot(start, end, sc, ec, coll) ==
    [start |-> start, end |-> end, startContainer |-> sc, endContainer |-> ec,
     collapsed |-> coll]

\* The snapshot exportSelection builds from the live range and root.
exportedSnapshot(d, range, root) ==
    LET preSelectionRange == setEnd(d, selectNodeContents(d, root), range.sc, range.so)
    IN  IF preSelectionRange.threw THEN [ret |-> "threw", out |-> <<>>]
        ELSE LET start == toStringLength(d, preSelectionRange.range)
             IN  [ret |-> "snapshot",
                  out |-> << Snapshot(start, start + toStringLength(d, range),
                                      range.sc, range.ec, collapsed(range)) >>]

\* exportSelection without the rangeCount check: getRangeAt(0) throws on an
\* empty selection.
exportSelectionNoCountCheck(d, s, root) ==
    IF root = NULL THEN [ret |-> "null", out |-> <<>>]
    ELSE IF ~s.obj THEN [ret |-> "null", out |-> <<>>]
    ELSE IF rangeCount(s) = 0 THEN [ret |-> "threw", out |-> <<>>]
    ELSE exportedSnapshot(d, s.ranges[1], root)

\* exportSelection measuring the start from the document's top element instead
\* of from root.
exportSelectionFromTop(d, s, root) ==
    IF root = NULL THEN [ret |-> "null", out |-> <<>>]
    ELSE IF ~s.obj \/ rangeCount(s) = 0 THEN [ret |-> "null", out |-> <<>>]
    ELSE exportedSnapshot(d, s.ranges[1], 1)

\* exportSelection with end set to the length of the selected text alone.
exportSelectionEndIsLength(d, s, root) ==
    IF root = NULL THEN [ret |-> "null", out |-> <<>>]
    ELSE IF ~s.obj \/ rangeCount(s) = 0 THEN [ret |-> "null", out |-> <<>>]
    ELSE LET res == exportedSnapshot(d, s.ranges[1], root)
         IN  IF res.ret # "snapshot" THEN res
             ELSE [res EXCEPT !.out[1].end = toStringLength(d, s.ranges[1])]

\* exportSelection(root): [ret, out] with ret "null", "snapshot" or "threw".
exportSelection(d, s, root) ==
    IF root = NULL THEN [ret |-> "null", out |-> <<>>]
    ELSE IF ~s.obj \/ rangeCount(s) = 0 THEN [ret |-> "null", out |-> <<>>]
    ELSE exportedSnapshot(d, s.ranges[1], root)

\* exportSelection measuring with the live range itself instead of a clone of
\* it (no range.cloneRange()): the live range ends up running from the start of
\* root to its old start.
selectionAfterExportNoClone(d, s, root) ==
    IF root = NULL \/ ~s.obj \/ rangeCount(s) = 0 THEN s
    ELSE LET range == s.ranges[1]
             preSelectionRange ==
                 setEnd(d, selectNodeContents(d, root), range.sc, range.so)
         IN  IF preSelectionRange.threw THEN s
             ELSE [s EXCEPT !.ranges = << preSelectionRange.range >>]

\* The live selection after exportSelection(root): selectNodeContents and setEnd
\* are called on preSelectionRange, a clone of the live range, and the live
\* range itself is only read.
selectionAfterExport(d, s, root) ==
    IF root = NULL \/ ~s.obj \/ rangeCount(s) = 0 THEN s
    ELSE LET range == s.ranges[1]
             preSelectionRange ==
                 setEnd(d, selectNodeContents(d, root), range.sc, range.so)
         IN  [s EXCEPT !.ranges = << range >>]

\* The platform calls exportSelection makes that the environment may reject.
ExportFaults == {"none", "setEnd"}

\* exportSelection(root) on a platform that rejects the calls named by fault:
\* no try block surrounds the calls made on preSelectionRange, so a rejected
\* setEnd ends exportSelection with the exception ("threw").
exportSelectionUnder(d, s, root, fault) ==
    IF fault = "setEnd" /\ root # NULL /\ s.obj /\ rangeCount(s) # 0
    THEN [ret |-> "threw", out |-> <<>>]
    ELSE exportSelection(d, s, root)

\* The children pushed in document order, not reversed.
NoReverse(q) == q

\* Array.from(node.childNodes).reverse()
RECURSIVE Reverse(_)
Reverse(q) == IF q = <<>> THEN <<>> ELSE Reverse(Tail(q)) \o <<Head(q)>>

\* node = nodeStack.pop() || null
Pop(w) ==
    IF w.nodeStack = <<>> THEN [w EXCEPT !.node = NULL]
    ELSE [w EXCEPT !.node = w.nodeStack[Len(w.nodeStack)],
                   !.nodeStack = SubSeq(w.nodeStack, 1, Len(w.nodeStack) - 1)]

\* WalkStep with the start test excluding the end of the node
\* (selectionState.start < nextCharIndex).
WalkStepStrictStart(d, snap, fault, w) ==
    IF nodeTypeOf(d, w.node) > 3 THEN Pop(w)
    ELSE IF nodeTypeOf(d, w.node) = TEXT_NODE
    THEN LET nextCharIndex == w.charIndex + d.len[w.node]
             atStart == /\ ~w.foundStart
                        /\ snap.start >= w.charIndex
                        /\ snap.start < nextCharIndex
             r1 == IF ~atStart THEN Ok(w.range)
                   ELSE IF fault = "setStart" THEN Thrown
                   ELSE setStart(d, w.range, w.node, snap.start - w.charIndex)
             foundStart1 == w.foundStart \/ atStart
             atEnd == /\ foundStart1
                      /\ snap.end >= w.charIndex
                      /\ snap.end <= nextCharIndex
             r2 == IF r1.threw \/ ~atEnd THEN r1
                   ELSE IF fault = "setEnd" THEN Thrown
                   ELSE setEnd(d, r1.range, w.node, snap.end - w.charIndex)
         IN  IF r2.threw THEN [w EXCEPT !.threw = TRUE]
             ELSE LET w2 == [w EXCEPT !.range = r2.range, !.foundStart = foundStart1,
                                      !.stop = atEnd, !.charIndex = nextCharIndex]
                  IN  IF atEnd THEN w2 ELSE Pop(w2)
    ELSE IF nodeTypeOf(d, w.node) = ELEMENT_NODE
    THEN Pop([w EXCEPT !.nodeStack = w.nodeStack \o Reverse(childNodes(d, w.node))])
    ELSE Pop(w)

\* WalkStep looking for the end only in the nodes after the one that holds the
\* start (the end test reading foundStart as it was before this node).
WalkStepEndAfterStart(d, snap, fault, w) ==
    IF nodeTypeOf(d, w.node) > 3 THEN Pop(w)
    ELSE IF nodeTypeOf(d, w.node) = TEXT_NODE
    THEN LET nextCharIndex == w.charIndex + d.len[w.node]
             atStart == /\ ~w.foundStart
                        /\ snap.start >= w.charIndex
                        /\ snap.start <= nextCharIndex
             r1 == IF ~atStart THEN Ok(w.range)
                   ELSE IF fault = "setStart" THEN Thrown
                   ELSE setStart(d, w.range, w.node, snap.start - w.charIndex)
             foundStart1 == w.foundStart \/ atStart
             atEnd == /\ w.foundStart
                      /\ snap.end >= w.charIndex
                      /\ snap.end <= nextCharIndex
             r2 == IF r1.threw \/ ~atEnd THEN r1
                   ELSE IF fault = "setEnd" THEN Thrown
                   ELSE setEnd(d, r1.range, w.node, snap.end - w.charIndex)
         IN  IF r2.threw THEN [w EXCEPT !.threw = TRUE]
             ELSE LET w2 == [w EXCEPT !.range = r2.range, !.foundStart = foundStart1,
                                      !.stop = atEnd, !.charIndex = nextCharIndex]
                  IN  IF atEnd THEN w2 ELSE Pop(w2)
    ELSE IF nodeTypeOf(d, w.node) = ELEMENT_NODE
    THEN Pop([w EXCEPT !.nodeStack = w.nodeStack \o Reverse(childNodes(d, w.node))])
    ELSE Pop(w)

\* WalkStep with the end test excluding the end of the node
\* (selectionState.end < nextCharIndex).
WalkStepStrictEnd(d, snap, fault, w) ==
    IF nodeTypeOf(d, w.node) > 3 THEN Pop(w)
    ELSE IF nodeTypeOf(d, w.node) = TEXT_NODE
    THEN LET nextCharIndex == w.charIndex + d.len[w.node]
             atStart == /\ ~w.foundStart
                        /\ snap.start >= w.charIndex
                        /\ snap.start <= nextCharIndex
             r1 == IF ~atStart THEN Ok(w.range)
                   ELSE IF fault = "setStart" THEN Thrown
                   ELSE setStart(d, w.range, w.node, snap.start - w.charIndex)
             foundStart1 == w.foundStart \/ atStart
             atEnd == /\ foundStart1
                      /\ snap.end >= w.charIndex
                      /\ snap.end < nextCharIndex
             r2 == IF r1.threw \/ ~atEnd THEN r1
                   ELSE IF fault = "setEnd" THEN Thrown
                   ELSE setEnd(d, r1.range, w.node, snap.end - w.charIndex)
         IN  IF r2.threw THEN [w EXCEPT !.threw = TRUE]
             ELSE LET w2 == [w EXCEPT !.range = r2.range, !.foundStart = foundStart1,
                                      !.stop = atEnd, !.charIndex = nextCharIndex]
                  IN  IF atEnd THEN w2 ELSE Pop(w2)
    ELSE IF nodeTypeOf(d, w.node) = ELEMENT_NODE
    THEN Pop([w EXCEPT !.nodeStack = w.nodeStack \o Reverse(childNodes(d, w.node))])
    ELSE Pop(w)

\* WalkStep counting the data of every character-data node, comments included
\* (the first test gone, the text branch taken for nodeType >= 3).
WalkStepCountsComments(d, snap, fault, w) ==
    IF nodeTypeOf(d, w.node) >= TEXT_NODE
    THEN LET nextCharIndex == w.charIndex + d.len[w.node]
             atStart == /\ ~w.foundStart
                        /\ snap.start >= w.charIndex
                        /\ snap.start <= nextCharIndex
             r1 == IF ~atStart THEN Ok(w.range)
                   ELSE IF fault = "setStart" THEN Thrown
                   ELSE setStart(d, w.range, w.node, snap.start - w.charIndex)
             foundStart1 == w.foundStart \/ atStart
             atEnd == /\ foundStart1
                      /\ snap.end >= w.charIndex
                      /\ snap.end <= nextCharIndex
             r2 == IF r1.threw \/ ~atEnd THEN r1
                   ELSE IF fault = "setEnd" THEN Thrown
                   ELSE setEnd(d, r1.range, w.node, snap.end - w.charIndex)
         IN  IF r2.threw THEN [w EXCEPT !.threw = TRUE]
             ELSE LET w2 == [w EXCEPT !.range = r2.range, !.foundStart = foundStart1,
                                      !.stop = atEnd, !.charIndex = nextCharIndex]
                  IN  IF atEnd THEN w2 ELSE Pop(w2)
    ELSE IF nodeTypeOf(d, w.node) = ELEMENT_NODE
    THEN Pop([w EXCEPT !.nodeStack = w.nodeStack \o Reverse(childNodes(d, w.node))])
    ELSE Pop(w)

\* WalkStep counting an empty text node as one character
\* (node.textContent?.length || 1).
WalkStepEmptyCounts(d, snap, fault, w) ==
    IF nodeTypeOf(d, w.node) > 3 THEN Pop(w)
    ELSE IF nodeTypeOf(d, w.node) = TEXT_NODE
    THEN LET nextCharIndex == w.charIndex
                                + (IF d.len[w.node] = 0 THEN 1 ELSE d.len[w.node])
             atStart == /\ ~w.foundStart
                        /\ snap.start >= w.charIndex
                        /\ snap.start <= nextCharIndex
             r1 == IF ~atStart THEN Ok(w.range)
                   ELSE IF fault = "setStart" THEN Thrown
                   ELSE setStart(d, w.range, w.node, snap.start - w.charIndex)
             foundStart1 == w.foundStart \/ atStart
             atEnd == /\ foundStart1
                      /\ snap.end >= w.charIndex
                      /\ snap.end <= nextCharIndex
             r2 == IF r1.threw \/ ~atEnd THEN r1
                   ELSE IF fault = "setEnd" THEN Thrown
                   ELSE setEnd(d, r1.range, w.node, snap.end - w.charIndex)
         IN  IF r2.threw THEN [w EXCEPT !.threw = TRUE]
             ELSE LET w2 == [w EXCEPT !.range = r2.range, !.foundStart = foundStart1,
                                      !.stop = atEnd, !.charIndex = nextCharIndex]
                  IN  IF atEnd THEN w2 ELSE Pop(w2)
    ELSE IF nodeTypeOf(d, w.node) = ELEMENT_NODE
    THEN Pop([w EXCEPT !.nodeStack = w.nodeStack \o Reverse(childNodes(d, w.node))])
    ELSE Pop(w)

\* WalkStep going on after it has set the end boundary (stop never set).
WalkStepNoStop(d, snap, fault, w) ==
    IF nodeTypeOf(d, w.node) > 3 THEN Pop(w)
    ELSE IF nodeTypeOf(d, w.node) = TEXT_NODE
    THEN LET nextCharIndex == w.charIndex + d.len[w.node]
             atStart == /\ ~w.foundStart
                        /\ snap.start >= w.charIndex
                        /\ snap.start <= nextCharIndex
             r1 == IF ~atStart THEN Ok(w.range)
                   ELSE IF fault = "setStart" THEN Thrown
                   ELSE setStart(d, w.range, w.node, snap.start - w.charIndex)
             foundStart1 == w.foundStart \/ atStart
             atEnd == /\ foundStart1
                      /\ snap.end >= w.charIndex
                      /\ snap.end <= nextCharIndex
             r2 == IF r1.threw \/ ~atEnd THEN r1
                   ELSE IF fault = "setEnd" THEN Thrown
                   ELSE setEnd(d, r1.range, w.node, snap.end - w.charIndex)
         IN  IF r2.threw THEN [w EXCEPT !.threw = TRUE]
             ELSE Pop([w EXCEPT !.range = r2.range, !.foundStart = foundStart1,
                                !.charIndex = nextCharIndex])
    ELSE IF nodeTypeOf(d, w.node) = ELEMENT_NODE
    THEN Pop([w EXCEPT !.nodeStack = w.nodeStack \o Reverse(childNodes(d, w.node))])
    ELSE Pop(w)

\* One pass through the body of the while loop of importSelection, on the walk
\* state w = [range, node, nodeStack, charIndex, foundStart, stop, threw].
WalkStep(d, snap, fault, w) ==
    IF nodeTypeOf(d, w.node) > 3 THEN Pop(w)
    ELSE IF nodeTypeOf(d, w.node) = TEXT_NODE
    THEN LET nextCharIndex == w.charIndex + d.len[w.node]
             atStart == /\ ~w.foundStart
                        /\ snap.start >= w.charIndex
                        /\ snap.start <= nextCharIndex
             r1 == IF ~atStart THEN Ok(w.range)
                   ELSE IF fault = "setStart" THEN Thrown
                   ELSE setStart(d, w.range, w.node, snap.start - w.charIndex)
             foundStart1 == w.foundStart \/ atStart
             atEnd == /\ foundStart1
                      /\ snap.end >= w.charIndex
                      /\ snap.end <= nextCharIndex
             r2 == IF r1.threw \/ ~atEnd THEN r1
                   ELSE IF fault = "setEnd" THEN Thrown
                   ELSE setEnd(d, r1.range, w.node, snap.end - w.charIndex)
         IN  IF r2.threw THEN [w EXCEPT !.threw = TRUE]
             ELSE LET w2 == [w EXCEPT !.range = r2.range, !.foundStart = foundStart1,
                                      !.stop = atEnd, !.charIndex = nextCharIndex]
                  IN  IF atEnd THEN w2 ELSE Pop(w2)
    ELSE IF nodeTypeOf(d, w.node) = ELEMENT_NODE
    THEN Pop([w EXCEPT !.nodeStack = w.nodeStack \o Reverse(childNodes(d, w.node))])
    ELSE Pop(w)

\* while (!stop && node) { ... }
RECURSIVE Walk(_, _, _, _)
Walk(d, snap, fault, w) ==
    IF w.threw \/ w.stop \/ w.node = NULL THEN w
    ELSE Walk(d, snap, fault, WalkStep(d, snap, fault, w))

\* selectRange adding the range only to a selection that held none: one that
\* held a range is left empty.
selectRangeIfEmpty(d, s, range, fault) ==
    IF ~s.obj THEN [threw |-> FALSE, sel |-> s]
    ELSE IF fault = "addRange" THEN [threw |-> TRUE, sel |-> removeAllRanges(s)]
    ELSE IF rangeCount(s) # 0 THEN [threw |-> FALSE, sel |-> removeAllRanges(s)]
    ELSE [threw |-> FALSE, sel |-> addRange(d, s, range)]

\* selectRange(range): [threw, sel].
selectRange(d, s, range, fault) ==
    IF ~s.obj THEN [threw |-> FALSE, sel |-> s]
    ELSE IF fault = "addRange" THEN [threw |-> TRUE, sel |-> removeAllRanges(s)]
    ELSE [threw |-> FALSE, sel |-> addRange(d, removeAllRanges(s), range)]

\* The try block starting from a range over all of root's contents instead of
\* a collapsed one at its start (no range.collapse(true)).
restoreRangeUncollapsed(d, s, root, snap, fault) ==
    LET w0 == [range |-> selectNodeContents(d, root), node |-> root,
               nodeStack |-> <<>>, charIndex |-> 0,
               foundStart |-> FALSE, stop |-> FALSE, threw |-> FALSE]
        w == Walk(d, snap, fault, w0)
        applied == selectRange(d, s, w.range, fault)
    IN  IF w.threw \/ fault = "setStart"
        THEN [ret |-> "false", sel |-> s, entered |-> TRUE,
              foundStart |-> w.foundStart, stop |-> w.stop]
        ELSE IF applied.threw
        THEN [ret |-> "false", sel |-> applied.sel, entered |-> TRUE,
              foundStart |-> w.foundStart, stop |-> w.stop]
        ELSE [ret |-> "true", sel |-> applied.sel, entered |-> TRUE,
              foundStart |-> w.foundStart, stop |-> w.stop]

\* The try block of importSelection: [ret, sel] and what the walk found.
restoreRange(d, s, root, snap, fault) ==
    LET r0 == IF fault = "setStart" THEN Thrown
              ELSE setStart(d, createRange, root, 0)
    IN  IF r0.threw
        THEN [ret |-> "false", sel |-> s, entered |-> TRUE, foundStart |-> FALSE,
              stop |-> FALSE]
        ELSE LET w0 == [range |-> collapse(r0.range, TRUE), node |-> root,
                        nodeStack |-> <<>>, charIndex |-> 0,
                        foundStart |-> FALSE, stop |-> FALSE, threw |-> FALSE]
                 w == Walk(d, snap, fault, w0)
                 applied == selectRange(d, s, w.range, fault)
             IN  IF w.threw
                 THEN [ret |-> "false", sel |-> s, entered |-> TRUE,
                       foundStart |-> w.foundStart, stop |-> w.stop]
                 ELSE IF applied.threw
                 THEN [ret |-> "false", sel |-> applied.sel, entered |-> TRUE,
                       foundStart |-> w.foundStart, stop |-> w.stop]
                 ELSE [ret |-> "true", sel |-> applied.sel, entered |-> TRUE,
                       foundStart |-> w.foundStart, stop |-> w.stop]

\* importSelection counting "nothing to restore" as a success.
importSelectionNullIsTrue(d, s, root, selectionState, fault) ==
    IF selectionState = <<>> \/ root = NULL
    THEN [ret |-> "true", sel |-> s, entered |-> FALSE, foundStart |-> FALSE,
          stop |-> FALSE]
    ELSE restoreRange(d, s, root, selectionState[1], fault)

\* importSelection(root, selectionState): [ret, sel] with ret "true" or "false",
\* whether the try block was entered, and the walk's foundStart and stop;
\* selectionState is <<>> (null) or <<snapshot>>.
importSelection(d, s, root, selectionState, fault) ==
    IF selectionState = <<>> \/ root = NULL
    THEN [ret |-> "false", sel |-> s, entered |-> FALSE, foundStart |-> FALSE,
          stop |-> FALSE]
    ELSE restoreRange(d, s, root, selectionState[1], fault)

\* ------------------------------------------------------------ Editor (the code)
\* saveSelection keeping the snapshot it holds when exportSelection returns null
\* (savedSelection assigned only a non-null result).
saveSelectionKeepsOld(d, s, focused, saved) ==
    IF focused = NULL
    THEN [ret |-> "null", out |-> <<>>, savedSelection |-> saved, sel |-> s]
    ELSE LET res == exportSelection(d, s, focused)
         IN  [ret |-> res.ret, out |-> res.out,
              savedSelection |-> IF res.out = <<>> THEN saved ELSE res.out,
              sel |-> selectionAfterExport(d, s, focused)]

\* Editor.saveSelection(): [ret, out] as exportSelection, the savedSelection field
\* and the live selection after the call.
saveSelection(d, s, focused, saved) ==
    IF focused = NULL
    THEN [ret |-> "null", out |-> <<>>, savedSelection |-> saved, sel |-> s]
    ELSE LET res == exportSelection(d, s, focused)
         IN  [ret |-> res.ret, out |-> res.out, savedSelection |-> res.out,
              sel |-> selectionAfterExport(d, s, focused)]

\* Editor.restoreSelection(): the result of importSelection, or false with no
\* call of it (imported FALSE).
restoreSelection(d, s, focused, saved) ==
    IF focused = NULL \/ saved = <<>>
    THEN [ret |-> "false", sel |-> s, imported |-> FALSE, entered |-> FALSE,
          foundStart |-> FALSE, stop |-> FALSE]
    ELSE LET res == importSelection(d, s, focused, saved, "none")
         IN  [ret |-> res.ret, sel |-> res.sel, imported |-> TRUE,
              entered |-> res.entered, foundStart |-> res.foundStart,
              stop |-> res.stop]

\* ------------------------------------------------------------ EventEmitter
\* The events of the editor (EventMap).
EventNames ==
    {"ready", "destroy", "focus", "blur", "input", "change", "addElement",
     "removeElement"}

\* What a listener function does when it is called: it returns, it throws, or
\* it calls emit() again for the event it is handling (unless the emits in
\* progress already nest MaxDepth deep).
Behaviours == {"returns", "throws", "emits"}

\* An EventEmitter: for each event the listeners of on() and those of once(),
\* each a Set in insertion order (<<>> also stands for no Map entry).
NoListeners == [e \in EventNames |-> <<>>]

NewEmitter == [listeners |-> NoListeners, onceListeners |-> NoListeners]

SetHas(q, l) == \E i \in 1 .. Len(q) : q[i] = l

SetAdd(q, l) == IF SetHas(q, l) THEN q ELSE Append(q, l)

SetDelete(q, l) == SelectSeq(q, LAMBDA x : x # l)

on(em, event, l) == [em EXCEPT !.listeners[event] = SetAdd(@, l)]

once(em, event, l) == [em EXCEPT !.onceListeners[event] = SetAdd(@, l)]

off(em, event, l) ==
    [em EXCEPT !.listeners[event] = SetDelete(@, l),
               !.onceListeners[event] = SetDelete(@, l)]

\* removeAllListeners(event?): "undefined" for the call without an argument.
removeAllListeners(em, event) ==
    IF event = "undefined" THEN NewEmitter
    ELSE [em EXCEPT !.listeners[event] = <<>>, !.onceListeners[event] = <<>>]

listenerCount(em, event) == Len(em.listeners[event]) + Len(em.onceListeners[event])

\* A dispatch in progress: the emitter, the calls made to listeners so far (in
\* order, with the loop that made each and the nesting depth of its emit), the
\* number of errors caught, and whether an error is propagating.
Dispatch(em) == [em |-> em, log |-> <<>>, caught |-> 0, threw |-> FALSE]

Called(kind, l, event, args, depth) ==
    [kind |-> kind, listener |-> l, event |-> event, args |-> args, depth |-> depth]

RECURSIVE emit(_, _, _, _)

\* One listener called with no try/catch around it: its error propagates.
invokeUncaught(run, kind, l, event, args, depth) ==
    LET r1 == [run EXCEPT !.log = Append(@, Called(kind, l, event, args, depth))]
    IN  IF l.does = "throws" THEN [r1 EXCEPT !.threw = TRUE]
        ELSE IF l.does = "emits" /\ depth < MaxDepth
        THEN emit(r1, event, args, depth + 1)
        ELSE r1

\* try { listener(...args) } catch (error) { console.error(...) }
invoke(run, kind, l, event, args, depth) ==
    LET r1 == [run EXCEPT !.log = Append(@, Called(kind, l, event, args, depth))]
    IN  IF l.does = "throws" THEN [r1 EXCEPT !.caught = @ + 1]
        ELSE IF l.does = "emits" /\ depth < MaxDepth
        THEN emit(r1, event, args, depth + 1)
        ELSE r1

\* set.forEach(listener => ...) over the members q of one Set.
RECURSIVE forEach(_, _, _, _, _, _)
forEach(run, kind, q, event, args, depth) ==
    IF q = <<>> \/ run.threw THEN run
    ELSE forEach(invoke(run, kind, Head(q), event, args, depth),
                 kind, Tail(q), event, args, depth)

\* emit(event, ...args): the regular listeners, then the once listeners read
\* from the Map after the first loop, the Map entry deleted after the second.
emit(run, event, args, depth) ==
    LET r1 == forEach(run, "on", run.em.listeners[event], event, args, depth)
        onceListeners == r1.em.onceListeners[event]
        r2 == forEach(r1, "once", onceListeners, event, args, depth)
    IN  IF r1.threw \/ onceListeners = <<>> THEN r1
        ELSE IF r2.threw THEN r2
        ELSE [r2 EXCEPT !.em.onceListeners[event] = <<>>]

\* ------------------------------------------------------- the page (platform)
\* Beside the forest, a page p holds for each element what the editor and its
\* extensions read and write: p.contenteditable (the elements whose
\* contenteditable attribute is 'true'), p.listening (the elements that carry
\* the editor's DOM event listeners), p.markup[n] (the markup parsed into n by
\* the last innerHTML assignment or edit, beside the child nodes the forest
\* holds), p.classList[n] (which placeholder class n has), p.textareas (the
\* elements that are <textarea>), p.hidden (those with display: none), p.free
\* (the nodes document.createElement has not created yet) and p.isFirefox.

\* The markup a caller passes, and the platform's serialization of its parse:
\* an unclosed <p> comes back closed.
Contents == {"", "<p>a</p>", "<p>a", "<img>"}

Normal(content) == IF content = "<p>a" THEN "<p>a</p>" ELSE content

PlaceholderClasses == {"none", "mrte-placeholder", "mrte-placeholder-relative"}

\* element.innerHTML: the markup followed by the child nodes of the forest.
RECURSIVE SerializeNodes(_, _, _)
innerHTMLOf(d, p, n) == <<p.markup[n]>> \o SerializeNodes(d, p, childNodes(d, n))

SerializeNodes(d, p, q) ==
    IF q = <<>> THEN <<>>
    ELSE LET n == Head(q)
             this == IF d.nodeType[n] = ELEMENT_NODE
                     THEN <<"<div>">> \o innerHTMLOf(d, p, n) \o <<"</div>">>
                     ELSE IF d.nodeType[n] = COMMENT_NODE THEN <<"<!---->">>
                     ELSE IF d.len[n] > 0 THEN <<"text">> ELSE <<>>
         IN  this \o SerializeNodes(d, p, Tail(q))

\* What innerHTML returns for an element holding exactly the parse of content.
Html(content) == <<content>>

\* (el.textContent || '') trimmed is not empty.
hasText(d, p, el) ==
    \E n \in Nodes :
        /\ IsDescendantOrSelf(d, n, el)
        /\ \/ d.nodeType[n] = ELEMENT_NODE /\ p.markup[n] = "<p>a</p>"
           \/ d.nodeType[n] = TEXT_NODE /\ d.len[n] > 0

\* el.querySelector('img, blockquote, ul, ol, table')
hasBlockElements(d, p, el) ==
    \E n \in Nodes :
        /\ IsDescendantOrSelf(d, n, el)
        /\ d.nodeType[n] = ELEMENT_NODE
        /\ p.markup[n] = "<img>"

\* ------------------------------------------------------------------- Editor
\* The world a method of the Editor runs in: the DOM, the live selection, the
\* Editor's fields, the page, the emitter, and what the call has done so far
\* (the listener calls made, the events the Editor emitted, the errors caught,
\* whether an error is propagating).
World(d, s, focused, ed, p, em) ==
    [doc |-> d, sel |-> s, focusedElement |-> focused, editor |-> ed, page |-> p,
     em |-> em, log |-> <<>>, emitted |-> <<>>, caught |-> 0, threw |-> FALSE]

\* Array.from(this.elements.keys())
Keys(elements) == [i \in 1 .. Len(elements) |-> elements[i].element]

MapHas(elements, element) == \E i \in 1 .. Len(elements) : elements[i].element = element

MapDelete(elements, element) == SelectSeq(elements, LAMBDA e : e.element # element)

\* The argument a listener receives at position i (NULL for undefined).
Arg(args, i) == IF i <= Len(args) THEN args[i] ELSE NULL

\* PlaceholderExtension.hidePlaceholder / showPlaceholder / updatePlaceholder
hidePlaceholder(w, el) ==
    IF el = NULL THEN w ELSE [w EXCEPT !.page.classList[el] = "none"]

showPlaceholder(w, el) ==
    IF el = NULL THEN w
    ELSE IF /\ w.page.isFirefox
            /\ childNodes(w.doc, el) = <<>>
            /\ w.page.markup[el] = ""
    THEN [w EXCEPT !.page.classList[el] = "mrte-placeholder-relative"]
    ELSE [w EXCEPT !.page.classList[el] = "mrte-placeholder"]

updatePlaceholder(w, el, dontShow) ==
    IF hasBlockElements(w.doc, w.page, el) \/ hasText(w.doc, w.page, el)
    THEN hidePlaceholder(w, el)
    ELSE IF ~dontShow THEN showPlaceholder(w, el)
    ELSE w

\* The PlaceholderExtension registered with the editor, if any.
PlaceholderOf(ed) ==
    LET S == { i \in 1 .. Len(ed.plugins) : ed.plugins[i].plugin.kind = "placeholder" }
    IN  IF S = {}
        THEN [kind |-> "none", id |-> 0, init |-> "absent", hideOnClick |-> FALSE,
              commands |-> <<>>]
        ELSE ed.plugins[CHOOSE i \in S : TRUE].plugin

\* The handlers PlaceholderExtension subscribes, as listeners.
ExtensionListener(handler) == [id |-> 0, does |-> handler]

\* A handler of PlaceholderExtension called with args.
Handle(w, called) ==
    LET does == called.listener.does
        args == called.args
    IN  IF does = "handleInput"
        THEN LET element == Arg(args, 2)
                 dontShow == /\ PlaceholderOf(w.editor).hideOnClick
                             /\ element = w.focusedElement
             IN  IF element = NULL THEN w ELSE updatePlaceholder(w, element, dontShow)
        ELSE IF does = "handleFocus"
        THEN LET element == Arg(args, 2)
             IN  IF element = NULL THEN w ELSE hidePlaceholder(w, element)
        ELSE IF does = "handleBlur"
        THEN LET element == Arg(args, 2)
             IN  IF element = NULL THEN w ELSE updatePlaceholder(w, element, FALSE)
        ELSE IF does = "handleAddElement"
        THEN updatePlaceholder(w, Arg(args, 1), FALSE)
        ELSE IF does = "handleRemoveElement"
        THEN hidePlaceholder(w, Arg(args, 1))
        ELSE w

RECURSIVE HandleAll(_, _)
HandleAll(w, calls) ==
    IF calls = <<>> THEN w ELSE HandleAll(Handle(w, Head(calls)), Tail(calls))

\* this.events.emit(event, ...args) made by the Editor: the dispatch, then what
\* the listeners it called did to the page.
editorEmit(w, event, args) ==
    LET w1 == emit(w, event, args, 0)
        calls == SubSeq(w1.log, Len(w.log) + 1, Len(w1.log))
    IN  [HandleAll(w1, calls) EXCEPT !.emitted = Append(@, <<event, args>>)]

\* The DOM event of a given type dispatched on an element.
DomEvent(type, target) == [type |-> type, target |-> target]

\* convertTextarea(textarea): the new <div> is the next node; it takes the
\* textarea's class and value and is inserted after it.
convertTextarea(w, textarea) ==
    LET div == textarea + 1
    IN  [w EXCEPT !.doc.parent[div] = w.doc.parent[textarea],
                  !.page.free = @ \ {div},
                  !.page.classList[div] = w.page.classList[textarea],
                  !.page.markup[div] = w.page.markup[textarea],
                  !.page.hidden = @ \cup {textarea}]

\* Editor.initElement(element)
initElement(w, element) ==
    IF MapHas(w.editor.elements, element) THEN w
    ELSE LET isTextarea == element \in w.page.textareas
             w1 == IF isTextarea THEN convertTextarea(w, element) ELSE w
             editableElement == IF isTextarea THEN element + 1 ELSE element
             w2 == [w1 EXCEPT
                      !.page.contenteditable = @ \cup {editableElement},
                      !.editor.elements =
                          Append(@, [element |-> editableElement,
                                     original |-> element,
                                     isTextarea |-> isTextarea])]
         IN  editorEmit(w2, "addElement", <<editableElement>>)

RECURSIVE InitEach(_, _)
InitEach(w, elements) ==
    IF elements = <<>> THEN w
    ELSE InitEach(initElement(w, Head(elements)), Tail(elements))

\* Editor.setupElements(elementsInput): the input as the array of elements it
\* names (<<>> for a selector that matches nothing).
setupElements(w, elements) ==
    IF elements = <<>> THEN [w EXCEPT !.threw = TRUE]
    ELSE InitEach(w, elements)

\* Editor.setupEventListeners()
setupEventListeners(w) ==
    [w EXCEPT !.page.listening =
        @ \cup { w.editor.elements[i].element : i \in 1 .. Len(w.editor.elements) }]

\* Editor.addElements(elementsInput)
addElements(w, elements) == setupElements(w, elements)

RECURSIVE RemoveEach(_, _)
RemoveEach(w, elements) ==
    IF elements = <<>> THEN w
    ELSE LET element == Head(elements)
             w1 == [w EXCEPT !.page.contenteditable = @ \ {element},
                             !.editor.elements = MapDelete(@, element)]
         IN  IF MapHas(w.editor.elements, element)
             THEN RemoveEach(editorEmit(w1, "removeElement", <<element>>),
                             Tail(elements))
             ELSE RemoveEach(w, Tail(elements))

\* Editor.removeElements(elementsToRemove)
removeElements(w, elements) == RemoveEach(w, elements)

\* element.remove(): the node leaves its parent; a boundary point of the live
\* range in it moves to where it was in the parent.
removeNode(w, n) ==
    LET parent == w.doc.parent[n]
        Moved(c, o) == IF IsDescendantOrSelf(w.doc, c, n)
                       THEN <<parent, IndexOf(w.doc, n)>> ELSE <<c, o>>
    IN  IF parent = NULL THEN w
        ELSE [w EXCEPT
                !.doc.parent[n] = NULL,
                !.sel = IF rangeCount(w.sel) = 0 THEN w.sel
                        ELSE LET r == w.sel.ranges[1]
                                 a == Moved(r.sc, r.so)
                                 b == Moved(r.ec, r.eo)
                             IN  SelectionOf(<< [sc |-> a[1], so |-> a[2],
                                                 ec |-> b[1], eo |-> b[2]] >>)]

\* PluginManager.destroy(): each plugin's destroy hook (PlaceholderExtension
\* cleans every element up), then the Map is cleared.
RECURSIVE HideEach(_, _)
HideEach(w, elements) ==
    IF elements = <<>> THEN w
    ELSE HideEach(hidePlaceholder(w, Head(elements)), Tail(elements))

pluginsDestroy(w) ==
    LET w1 == IF PlaceholderOf(w.editor).kind = "placeholder"
              THEN HideEach(w, Keys(w.editor.elements)) ELSE w
    IN  [w1 EXCEPT !.editor.plugins = <<>>]

\* The loop of destroy() over this.elements.
RECURSIVE CleanEach(_, _)
CleanEach(w, entries) ==
    IF entries = <<>> THEN w
    ELSE LET e == Head(entries)
             w1 == [w EXCEPT !.page.contenteditable = @ \ {e.element}]
             w2 == IF e.isTextarea
                   THEN removeNode([w1 EXCEPT
                                      !.page.markup[e.original] = w.page.markup[e.element],
                                      !.page.hidden = @ \ {e.original}],
                                   e.element)
                   ELSE w1
         IN  CleanEach(w2, Tail(entries))

\* destroy() emitting 'destroy' before it removes the listeners.
destroyEmitsFirst(w) ==
    IF w.editor.isDestroyed THEN w
    ELSE LET w1 == CleanEach(pluginsDestroy(w), w.editor.elements)
             w2 == editorEmit([w1 EXCEPT !.editor.elements = <<>>,
                                         !.editor.isDestroyed = TRUE],
                              "destroy", <<"editor">>)
         IN  [w2 EXCEPT !.em = removeAllListeners(@, "undefined")]

\* Editor.destroy()
destroy(w) ==
    IF w.editor.isDestroyed THEN w
    ELSE LET w1 == CleanEach(pluginsDestroy(w), w.editor.elements)
             w2 == [w1 EXCEPT !.editor.elements = <<>>,
                              !.em = removeAllListeners(@, "undefined"),
                              !.editor.isDestroyed = TRUE]
         IN  editorEmit(w2, "destroy", <<"editor">>)

\* element.innerHTML = content: the children leave the element (a boundary
\* point of the live range in them moves to (element, 0)) and the parse of
\* content takes their place.
setInnerHTML(w, element, content) ==
    LET Moved(c, o) == IF IsDescendantOrSelf(w.doc, c, element)
                       THEN <<element, 0>> ELSE <<c, o>>
    IN  [w EXCEPT
            !.doc.parent = [n \in Nodes |->
                IF w.doc.parent[n] = element THEN NULL ELSE w.doc.parent[n]],
            !.page.markup[element] = Normal(content),
            !.sel = IF rangeCount(w.sel) = 0 THEN w.sel
                    ELSE LET r == w.sel.ranges[1]
                             a == Moved(r.sc, r.so)
                             b == Moved(r.ec, r.eo)
                         IN  SelectionOf(<< [sc |-> a[1], so |-> a[2],
                                             ec |-> b[1], eo |-> b[2]] >>)]

RECURSIVE SetEach(_, _, _)
SetEach(w, elements, content) ==
    IF elements = <<>> THEN w
    ELSE SetEach(setInnerHTML(w, Head(elements), content), Tail(elements), content)

\* The element an index names in Array.from(this.elements.keys()), NULL for
\* undefined.
ElementAt(elements, i) ==
    IF 0 <= i /\ i < Len(elements) THEN elements[i + 1].element ELSE NULL

\* setContent that emits 'change' once for each element it sets.
RECURSIVE SetEachEmitting(_, _, _)
SetEachEmitting(w, elements, content) ==
    IF elements = <<>> THEN w
    ELSE SetEachEmitting(editorEmit(setInnerHTML(w, Head(elements), content),
                                    "change", <<content>>),
                         Tail(elements), content)

setContentEmitsEach(w, content, elementIndex) ==
    IF elementIndex # <<>>
    THEN LET element == ElementAt(w.editor.elements, elementIndex[1])
         IN  IF element = NULL THEN w
             ELSE editorEmit(setInnerHTML(w, element, content), "change", <<content>>)
    ELSE SetEachEmitting(w, Keys(w.editor.elements), content)

\* Editor.setContent(content, elementIndex?): elementIndex is <<>> when it is
\* not given, <<i>> for the number i.
setContent(w, content, elementIndex) ==
    IF elementIndex # <<>>
    THEN LET element == ElementAt(w.editor.elements, elementIndex[1])
         IN  IF element = NULL THEN w
             ELSE editorEmit(setInnerHTML(w, element, content), "change", <<content>>)
    ELSE editorEmit(SetEach(w, Keys(w.editor.elements), content),
                    "change", <<content>>)

\* Editor.getContent(elementIndex?): the innerHTML of each element, or of the
\* one the index names ('' when it names none).
getContent(w, elementIndex) ==
    IF elementIndex # <<>>
    THEN LET element == ElementAt(w.editor.elements, elementIndex[1])
         IN  IF element = NULL THEN Html("") ELSE innerHTMLOf(w.doc, w.page, element)
    ELSE [i \in 1 .. Len(w.editor.elements) |->
            innerHTMLOf(w.doc, w.page, w.editor.elements[i].element)]

\* Editor.getElements()
getElements(ed) == Keys(ed.elements)

\* Editor.handleFocus(event)
handleFocus(w, event) ==
    editorEmit([w EXCEPT !.focusedElement = event.target], "focus", <<event>>)

\* Editor.handleBlur(event)
handleBlur(w, event) == editorEmit(w, "blur", <<event>>)

\* Editor.handleInput(event)
handleInput(w, event) ==
    editorEmit(editorEmit(w, "input", <<event>>),
               "change", <<innerHTMLOf(w.doc, w.page, event.target)>>)

\* ----------------------------------------------------------- CommandManager
\* A command: what its execute returns ("platform" for what
\* document.execCommand returns) and what its canExecute returns ("absent"
\* when it has none).  NoCommand stands for no Map entry.
CommandNames == {"bold", "italic", "custom"}

NoCommand == [execute |-> "none", canExecute |-> "absent"]

PlatformCommand == [execute |-> "platform", canExecute |-> "absent"]

CustomCommands ==
    { [execute |-> e, canExecute |-> c] :
        e \in {"true", "false"}, c \in {"absent", "true", "false"} }

\* registerDefaultCommands()
registerDefaultCommands ==
    [name \in CommandNames |->
        IF name \in {"bold", "italic"} THEN PlatformCommand ELSE NoCommand]

\* CommandManager.register(command)
commandsRegister(commands, name, command) == [commands EXCEPT ![name] = command]

\* CommandManager.unregister(name)
commandsUnregister(commands, name) == [commands EXCEPT ![name] = NoCommand]

\* execute running the command without asking canExecute.
commandsExecuteUnasked(commands, name, platform) ==
    LET command == commands[name]
    IN  IF command = NoCommand
        THEN [ret |-> "false", ran |-> <<>>]
        ELSE [ret |-> IF command.execute = "platform" THEN platform
                      ELSE command.execute,
              ran |-> <<name>>]

\* CommandManager.execute(name, ...args): [ret, ran], ran the commands whose
\* execute was called; platform is what document.execCommand returns.
commandsExecute(commands, name, platform) ==
    LET command == commands[name]
    IN  IF command = NoCommand
        THEN [ret |-> "false", ran |-> <<>>]
        ELSE IF command.canExecute # "absent" /\ command.canExecute = "false"
        THEN [ret |-> "false", ran |-> <<>>]
        ELSE [ret |-> IF command.execute = "platform" THEN platform
                      ELSE command.execute,
              ran |-> <<name>>]

\* Editor.execCommand(command, value)
execCommand(ed, name, platform) == commandsExecute(ed.commands, name, platform)

\* ------------------------------------------------------------ PluginManager
\* A plugin: an object with an init hook that is absent, returns or throws
\* (kind "object"), the PlaceholderExtension (kind "placeholder"), or a value
\* that is no object (kinds "null" and "string").  The registry is the Map in
\* insertion order: <<[name, plugin], ...>>.
PluginNames == {"placeholder", "custom"}

Plugin(kind, id, init, hideOnClick, commands) ==
    [kind |-> kind, id |-> id, init |-> init, hideOnClick |-> hideOnClick,
     commands |-> commands]

PlaceholderExtension(hideOnClick) ==
    Plugin("placeholder", 0, "returns", hideOnClick, <<>>)

\* plugin.commands.forEach(cmd => this.editor.commands.register(cmd))
RECURSIVE RegisterEach(_, _)
RegisterEach(commands, q) ==
    IF q = <<>> THEN commands
    ELSE RegisterEach(commandsRegister(commands, Head(q).name, Head(q).command), Tail(q))

pluginsHas(plugins, name) == \E i \in 1 .. Len(plugins) : plugins[i].name = name

\* PluginManager.get(name): <<>> for undefined.
pluginsGet(plugins, name) ==
    LET S == { i \in 1 .. Len(plugins) : plugins[i].name = name }
    IN  IF S = {} THEN <<>> ELSE <<plugins[CHOOSE i \in S : TRUE].plugin>>

pluginsDelete(plugins, name) == SelectSeq(plugins, LAMBDA e : e.name # name)

RECURSIVE UpdateEach(_, _)
UpdateEach(w, elements) ==
    IF elements = <<>> THEN w
    ELSE UpdateEach(updatePlaceholder(w, Head(elements), FALSE), Tail(elements))

\* PlaceholderExtension.attachEventHandlers()
attachEventHandlers(w, hideOnClick) ==
    LET em1 == IF hideOnClick
               THEN on(w.em, "focus", ExtensionListener("handleFocus")) ELSE w.em
        em2 == on(em1, "input", ExtensionListener("handleInput"))
        em3 == on(em2, "blur", ExtensionListener("handleBlur"))
        em4 == on(em3, "addElement", ExtensionListener("handleAddElement"))
    IN  [w EXCEPT !.em = on(em4, "removeElement", ExtensionListener("handleRemoveElement"))]

\* plugin.init?.(editor); Extension.init runs onCreate, which for the
\* PlaceholderExtension is initPlaceholders() and attachEventHandlers().
pluginInit(w, plugin) ==
    IF plugin.init = "throws" THEN [w EXCEPT !.threw = TRUE]
    ELSE IF plugin.kind = "placeholder"
    THEN attachEventHandlers(UpdateEach(w, Keys(w.editor.elements)), plugin.hideOnClick)
    ELSE w

\* register leaving a plugin whose init threw in the Map.
pluginsRegisterKeepsFailed(w, name, plugin) ==
    IF pluginsHas(w.editor.plugins, name) THEN [w EXCEPT !.threw = TRUE]
    ELSE IF plugin.kind \in {"null", "string"} THEN [w EXCEPT !.threw = TRUE]
    ELSE LET w1 == pluginInit([w EXCEPT !.editor.plugins =
                                  Append(@, [name |-> name, plugin |-> plugin])],
                              plugin)
         IN  IF w1.threw THEN w1
             ELSE [w1 EXCEPT !.editor.commands = RegisterEach(@, plugin.commands)]

\* PluginManager.register(name, plugin)
pluginsRegister(w, name, plugin) ==
    IF pluginsHas(w.editor.plugins, name) THEN [w EXCEPT !.threw = TRUE]
    ELSE IF plugin.kind \in {"null", "string"} THEN [w EXCEPT !.threw = TRUE]
    ELSE LET w1 == pluginInit([w EXCEPT !.editor.plugins =
                                  Append(@, [name |-> name, plugin |-> plugin])],
                              plugin)
         IN  IF w1.threw
             THEN [w1 EXCEPT !.editor.plugins = pluginsDelete(@, name)]
             ELSE [w1 EXCEPT !.editor.commands = RegisterEach(@, plugin.commands)]

\* PluginManager.unregister(name)
pluginsUnregister(w, name) ==
    LET got == pluginsGet(w.editor.plugins, name)
        w1 == IF got # <<>> /\ got[1].kind = "placeholder"
              THEN HideEach(w, Keys(w.editor.elements)) ELSE w
    IN  [w1 EXCEPT !.editor.plugins = pluginsDelete(@, name)]

\* PluginManager.init(plugins)
RECURSIVE pluginsInit(_, _)
pluginsInit(w, extensions) ==
    IF extensions = <<>> \/ w.threw THEN w
    ELSE pluginsInit(pluginsRegister(w, Head(extensions).name, Head(extensions).plugin),
                     Tail(extensions))

\* ------------------------------------------------------ Editor construction
NewEditor ==
    [elements |-> <<>>, isDestroyed |-> FALSE, plugins |-> <<>>,
     commands |-> registerDefaultCommands]

\* A page of plain elements on which no editor has worked yet.
NewPage(textareas, free, isFirefox) ==
    [contenteditable |-> {}, listening |-> {}, markup |-> [n \in Nodes |-> ""],
     classList |-> [n \in Nodes |-> "none"], textareas |-> textareas,
     hidden |-> {}, free |-> free, isFirefox |-> isFirefox]

\* new Editor(elements, { extensions })
Construct(d, s, p, elements, extensions) ==
    LET w1 == setupElements(World(d, s, NULL, NewEditor, p, NewEmitter), elements)
        w2 == pluginsInit(setupEventListeners(w1), extensions)
    IN  IF w1.threw THEN w1
        ELSE IF w2.threw THEN w2
        ELSE editorEmit(w2, "ready", <<"editor">>)

\* ------------------------------------------------------------- state machine
VARIABLES
    doc,    \* the DOM forest
    sel,    \* the live selection of the document
    last,   \* the last call made: its arguments, its result, the selection before
    focusedElement,   \* Editor.focusedElement (NULL for null)
    savedSelection,   \* Editor.savedSelection (<<>> for null)
    lastSave,         \* the most recent saveSelection(): what it returned, its element
    editor,           \* the other fields of the Editor: elements, isDestroyed,
                      \* and the registries of its plugins and commands
    page,             \* the attributes, classes, markup and listeners of the elements
    events,           \* an EventEmitter (the editor's events)
    hostCall,         \* the last call made to the emitter or the editor, with its effects
    heard             \* calls made to each once() listener since it was registered
                      \* (listeners registered now or called by the last call)

vars ==
    <<doc, sel, last, focusedElement, savedSelection, lastSave, editor, page, events,
      hostCall, heard>>

\* The state outside the selection code and the Editor's selection fields.
hostVars == <<editor, page, events, hostCall, heard>>

\* The fields of the Editor and what is remembered of its last saveSelection().
editorVars == <<focusedElement, savedSelection, lastSave>>

\* The state the selection code and the Editor's selection methods work on.
codecVars == <<doc, sel, last, editorVars>>

NoSave == [ret |-> "none", element |-> NULL]

\* The live range lies inside root: both containers are root or descendants.
RangeInside(d, r, root) ==
    /\ root # NULL
    /\ IsDescendantOrSelf(d, r.sc, root)
    /\ IsDescendantOrSelf(d, r.ec, root)

\* What a call record keeps of the call made just before it (op "none" when
\* the caller had taken every earlier result).
NoPrev ==
    [op |-> "none", root |-> NULL, snap |-> <<>>, fault |-> "none", ret |-> "none"]

PrevOf(call) ==
    [op |-> call.op, root |-> call.root, snap |-> call.snap, fault |-> call.fault,
     ret |-> call.ret]

NoCall ==
    [op |-> "none", root |-> NULL, snap |-> <<>>, fault |-> "none", ret |-> "none",
     out |-> <<>>, before |-> NoSelectionObject, entered |-> FALSE,
     foundStart |-> FALSE, stop |-> FALSE, chain |-> 0, s1 |-> <<>>,
     prev |-> NoPrev]

Selections(d) ==
    {NoSelectionObject, SelectionOf(<<>>)}
        \cup { SelectionOf(<<r>>) : r \in DocumentRanges(d) }

\* No call made yet to the emitter or the editor.
NoHostCall ==
    [op |-> "none", event |-> "none", args |-> <<>>, ret |-> "none", log |-> <<>>,
     emitted |-> <<>>, caught |-> 0, threw |-> FALSE, before |-> <<>>]

\* The listener functions a caller registers with an EventEmitter.
Listeners == { [id |-> i, does |-> b] : i \in 1 .. MaxListeners, b \in Behaviours }

NoneHeard == [e \in EventNames |-> [l \in Listeners |-> 0]]

\* The elements of the document, in document order.
AttachedElements(d) ==
    LET Attached(n) == d.nodeType[n] = ELEMENT_NODE /\ RootOf(d, n) = DOCUMENT
    IN  SelectSeq([n \in Nodes |-> n], Attached)

\* A stand-alone emitter, beside an editor built on every element of the
\* document with no extension.
InitHost ==
    \E w \in {Construct(doc, sel, NewPage({}, {}, FALSE), AttachedElements(doc), <<>>)} :
        /\ editor = w.editor
        /\ page = w.page
        /\ events = NewEmitter
        /\ hostCall = NoHostCall
        /\ heard = NoneHeard

Init ==
    /\ doc \in Docs
    /\ sel \in Selections(doc)
    /\ last = NoCall
    /\ focusedElement = NULL
    /\ savedSelection = <<>>
    /\ lastSave = NoSave
    /\ InitHost

\* The roots a caller may pass: any element, or null.
Roots(d) == Elements(d) \cup {NULL}

\* The snapshots a caller may make up itself, besides null: start <= end, each
\* from 0 to one past the text length of the whole document.
TotalTextLength(d, root) ==
    SumLen(d, { n \in Nodes : d.nodeType[n] = TEXT_NODE /\ IsDescendantOrSelf(d, n, root) })

CallerSnapshots(d) ==
    { Snapshot(a, b, NULL, NULL, a = b) :
        <<a, b>> \in { p \in (0 .. (TotalTextLength(d, 1) + 1))
                              \X (0 .. (TotalTextLength(d, 1) + 1)) : p[1] <= p[2] } }

\* last holds a call's result until the caller has taken it (Return).
Idle == last.op = "none"

\* hostCall holds the record of a call until the caller goes on (HostReturn).
HostIdle == hostCall.op = "none"

\* The number of calls a dispatch made to listener l from the once loop.
OnceCalls(log, event, l) ==
    Cardinality({ i \in 1 .. Len(log) : /\ log[i].kind = "once"
                                          /\ log[i].event = event
                                          /\ log[i].listener = l })

OnCalls(log, event, l) ==
    Cardinality({ i \in 1 .. Len(log) : /\ log[i].kind = "on"
                                          /\ log[i].event = event
                                          /\ log[i].listener = l })

\* The world as it is, and what a call record keeps of it.
Cur == World(doc, sel, focusedElement, editor, page, events)

Before ==
    <<[doc |-> doc, sel |-> sel, focusedElement |-> focusedElement,
       editor |-> editor, page |-> page, events |-> events]>>

HeardAfter(log) ==
    [e \in EventNames |-> [l \in Listeners |-> heard[e][l] + OnceCalls(log, e, l)]]

\* A call that ended in the world w: the state it left and the record of it.
Commit(op, args, ret, w) ==
    /\ doc' = w.doc
    /\ sel' = w.sel
    /\ focusedElement' = w.focusedElement
    /\ editor' = w.editor
    /\ page' = w.page
    /\ events' = w.em
    /\ hostCall' = [NoHostCall EXCEPT !.op = op, !.args = args, !.ret = ret,
                                      !.log = w.log, !.emitted = w.emitted,
                                      !.caught = w.caught, !.threw = w.threw,
                                      !.before = Before]
    /\ heard' = HeardAfter(w.log)
    /\ UNCHANGED <<last, savedSelection, lastSave>>

\* The caller goes on after the call; the calls made to once() listeners that
\* are registered no more are forgotten.
HostReturn ==
    /\ ~HostIdle
    /\ hostCall' = NoHostCall
    /\ heard' = [e \in EventNames |-> [l \in Listeners |->
                    IF SetHas(events.onceListeners[e], l) THEN heard[e][l] ELSE 0]]
    /\ UNCHANGED <<codecVars, editor, page, events>>

\* Editor.handleFocus(event): a focus event on an element of the document that
\* carries the editor's listeners.
HandleFocus(element) ==
    /\ element \in page.listening
    /\ RootOf(doc, element) = DOCUMENT
    /\ Commit("focus", <<element>>, "none", handleFocus(Cur, DomEvent("focus", element)))

\* selectRange(range) called by the host or the user changing the selection.
SelectRange(r) ==
    /\ sel' = selectRange(doc, sel, r, "none").sel
    /\ UNCHANGED <<doc, last, editorVars, hostVars>>

\* clearSelection()
ClearSelection ==
    /\ sel' = (IF sel.obj THEN removeAllRanges(sel) ELSE sel)
    /\ UNCHANGED <<doc, last, editorVars, hostVars>>

\* exportSelection(root).  chain counts the steps of an export / import of that
\* snapshot / export sequence on one root with nothing in between: 1 after an
\* export of a live range inside root, 3 after the closing export.
ExportSelection(root, fault) ==
    \E res \in {exportSelectionUnder(doc, sel, root, fault)} :
        LET closing == /\ last.op = "import" /\ last.chain = 2 /\ last.root = root
            opening == /\ res.ret = "snapshot"
                       /\ RangeInside(doc, sel.ranges[1], root)
        IN  /\ last' = [NoCall EXCEPT !.op = "export", !.root = root,
                                      !.fault = fault, !.ret = res.ret, !.out = res.out, !.before = sel,
                                      !.chain = IF closing THEN 3
                                                ELSE IF opening THEN 1 ELSE 0,
                                      !.s1 = IF closing THEN last.s1 ELSE res.out,
                                      !.prev = PrevOf(last)]
            /\ sel' = selectionAfterExport(doc, sel, root)
            /\ UNCHANGED <<doc, editorVars, hostVars>>

\* importSelection(root, selectionState)
ImportSelection(root, selectionState, fault) ==
    \E res \in {importSelection(doc, sel, root, selectionState, fault)} :
        LET paired == /\ last.op = "export" /\ last.chain = 1 /\ last.root = root
                      /\ selectionState = last.out /\ fault = "none"
        IN  /\ sel' = res.sel
            /\ last' = [NoCall EXCEPT !.op = "import", !.root = root,
                                      !.snap = selectionState, !.fault = fault,
                                      !.ret = res.ret, !.before = sel,
                                      !.entered = res.entered,
                                      !.foundStart = res.foundStart,
                                      !.stop = res.stop,
                                      !.chain = IF paired THEN 2 ELSE 0,
                                      !.s1 = IF paired THEN last.out ELSE <<>>,
                                      !.prev = PrevOf(last)]
            /\ UNCHANGED <<doc, editorVars, hostVars>>

\* The caller takes the result of the call.
Return ==
    /\ ~Idle
    /\ last' = NoCall
    /\ UNCHANGED <<doc, sel, editorVars, hostVars>>

\* The host empties an element (element.innerHTML = ''): its children are removed
\* and become the roots of detached trees; a boundary point of the live range that
\* was in the element or below it ends at (element, 0).
MovedPoint(d, element, n, o) ==
    IF IsDescendantOrSelf(d, n, element) THEN <<element, 0>> ELSE <<n, o>>

EmptyElement(element) ==
    /\ nodeTypeOf(doc, element) = ELEMENT_NODE
    /\ childNodes(doc, element) # <<>>
    /\ doc' = [doc EXCEPT !.parent = [n \in Nodes |->
                    IF doc.parent[n] = element THEN NULL ELSE doc.parent[n]]]
    /\ sel' = IF rangeCount(sel) = 0 THEN sel
              ELSE LET r == sel.ranges[1]
                       a == MovedPoint(doc, element, r.sc, r.so)
                       b == MovedPoint(doc, element, r.ec, r.eo)
                   IN  SelectionOf(<< [sc |-> a[1], so |-> a[2],
                                       ec |-> b[1], eo |-> b[2]] >>)
    /\ UNCHANGED <<last, editorVars, hostVars>>


\* Editor.saveSelection()
SaveSelection ==
    \E res \in {saveSelection(doc, sel, focusedElement, savedSelection)} :
        /\ savedSelection' = res.savedSelection
        /\ sel' = res.sel
        /\ lastSave' = [ret |-> res.ret, element |-> focusedElement]
        /\ last' = [NoCall EXCEPT !.op = "save", !.root = focusedElement,
                                  !.ret = res.ret, !.out = res.out, !.before = sel]
        /\ UNCHANGED <<doc, focusedElement, hostVars>>

\* Editor.restoreSelection(); last.snap is the snapshot importSelection was
\* called with (<<>> when it was not called).
RestoreSelection ==
    \E res \in {restoreSelection(doc, sel, focusedElement, savedSelection)} :
        /\ sel' = res.sel
        /\ last' = [NoCall EXCEPT !.op = "restore", !.root = focusedElement,
                                  !.snap = IF res.imported THEN savedSelection ELSE <<>>,
                                  !.ret = res.ret, !.before = sel,
                                  !.entered = res.entered,
                                  !.foundStart = res.foundStart, !.stop = res.stop]
        /\ UNCHANGED <<doc, focusedElement, savedSelection, lastSave, hostVars>>

\* A caller that holds no pending result may make any call; one that has just
\* exported may import that snapshot; one that has just imported it back may
\* export again.  Under Next the platform rejects no call.
Next ==
    \/ Idle /\ \E r \in DocumentRanges(doc) : SelectRange(r)
    \/ Idle /\ ClearSelection
    \/ Idle /\ \E element \in Nodes : EmptyElement(element)
    \/ Idle /\ \E root \in Roots(doc) : ExportSelection(root, "none")
    \/ Idle /\ \E root \in Roots(doc) :
                 \E s \in {<<>>} \cup { <<c>> : c \in CallerSnapshots(doc) } :
                    ImportSelection(root, s, "none")
    \/ last.op = "export" /\ \E root \in Roots(doc) :
                                ImportSelection(root, last.out, "none")
    \/ last.op = "import" /\ last.chain = 2
           /\ \E root \in Roots(doc) : ExportSelection(root, "none")
    \/ Return

Spec == Init /\ [][Next]_vars

\* The same caller on a platform that may reject the calls exportSelection and
\* importSelection make.
NextFaults ==
    \/ Idle /\ \E r \in DocumentRanges(doc) : SelectRange(r)
    \/ Idle /\ ClearSelection
    \/ Idle /\ \E element \in Nodes : EmptyElement(element)
    \/ Idle /\ \E root \in Roots(doc), fault \in ExportFaults :
                 ExportSelection(root, fault)
    \/ Idle /\ \E root \in Roots(doc), fault \in Faults :
                 \E s \in {<<>>} \cup { <<c>> : c \in CallerSnapshots(doc) } :
                    ImportSelection(root, s, fault)
    \/ last.op = "export" /\ \E root \in Roots(doc), fault \in Faults :
                                ImportSelection(root, last.out, fault)
    \/ last.op = "import" /\ last.chain = 2
           /\ \E root \in Roots(doc), fault \in ExportFaults :
                 ExportSelection(root, fault)
    \/ Return

SpecFaults == Init /\ [][NextFaults]_vars

\* A caller that repeats an import: the same root and snapshot a second time,
\* with no call and no DOM change in between.
NextTwice ==
    \/ Idle /\ \E r \in DocumentRanges(doc) : SelectRange(r)
    \/ Idle /\ ClearSelection
    \/ Idle /\ \E element \in Nodes : EmptyElement(element)
    \/ Idle /\ \E root \in Roots(doc) :
                 \E s \in {<<>>} \cup { <<c>> : c \in CallerSnapshots(doc) } :
                    ImportSelection(root, s, "none")
    \/ last.op = "import" /\ last.prev.op = "none"
           /\ ImportSelection(last.root, last.snap, "none")
    \/ Return

SpecTwice == Init /\ [][NextTwice]_vars

\* The host Editor: any sequence of focus events, saveSelection() and
\* restoreSelection(), from any selection the user has made in any document,
\* while the selection is cleared and the content of elements is emptied.
NextEditor ==
    \/ Idle /\ HostIdle /\ ClearSelection
    \/ Idle /\ HostIdle /\ \E element \in Nodes : EmptyElement(element)
    \/ Idle /\ HostIdle /\ \E element \in Nodes : HandleFocus(element)
    \/ Idle /\ HostIdle /\ SaveSelection
    \/ Idle /\ HostIdle /\ RestoreSelection
    \/ Return
    \/ HostReturn

SpecEditor == Init /\ [][NextEditor]_vars

\* ------------------------------------------------------- EventEmitter callers
\* The events and arguments the callers of a stand-alone EventEmitter use.
EmitterEvents == {"change", "destroy"}

Registered(em) ==
    LET SumRegistered[S \in SUBSET EventNames] ==
            IF S = {} THEN 0
            ELSE LET e == CHOOSE x \in S : TRUE
                 IN  listenerCount(em, e) + SumRegistered[S \ {e}]
    IN  SumRegistered[EventNames]

\* on(event, listener)
On(event, l) ==
    /\ Registered(events) < MaxRegistered
    /\ events' = on(events, event, l)
    /\ UNCHANGED <<codecVars, editor, page, hostCall, heard>>

\* once(event, listener)
Once(event, l) ==
    /\ Registered(events) < MaxRegistered
    /\ events' = once(events, event, l)
    /\ heard' = [heard EXCEPT ![event][l] = 0]
    /\ UNCHANGED <<codecVars, editor, page, hostCall>>

\* off(event, listener)
Off(event, l) ==
    /\ events' = off(events, event, l)
    /\ UNCHANGED <<codecVars, editor, page, hostCall, heard>>

\* removeAllListeners(event?)
RemoveAllListeners(event) ==
    /\ events' = removeAllListeners(events, event)
    /\ UNCHANGED <<codecVars, editor, page, hostCall, heard>>

\* emit(event, ...args) called from outside any listener.
Emit(event, args) ==
    \E run \in {emit(Dispatch(events), event, args, 0)} :
        /\ events' = run.em
        /\ hostCall' = [NoHostCall EXCEPT !.op = "emit", !.event = event, !.args = args,
                                      !.log = run.log, !.caught = run.caught,
                                      !.threw = run.threw, !.before = Before]
        /\ heard' = HeardAfter(run.log)
        /\ UNCHANGED <<codecVars, editor, page>>

\* -------------------------------------------------------- the Editor's callers
\* The elements a caller can name: those that exist.
ExistingIn(d, p) == { n \in Nodes : d.nodeType[n] = ELEMENT_NODE /\ n \notin p.free }

\* The arrays of elements a caller passes (<<>> for a selector matching none).
ElementInputsIn(d, p) ==
    {<<>>} \cup UNION { [1 .. k -> ExistingIn(d, p)] : k \in 1 .. MaxInput }

ElementInputs == ElementInputsIn(doc, page)

\* The <div> a <textarea> of the input is converted into is the next node, not
\* created yet.
ConvertibleIn(p, ed, elements) ==
    \A i \in 1 .. Len(elements) :
        (elements[i] \in p.textareas /\ ~MapHas(ed.elements, elements[i])) =>
            /\ elements[i] + 1 \in p.free
            /\ \A j \in 1 .. Len(elements) : elements[j] = elements[i] => j = i

Convertible(elements) == ConvertibleIn(page, editor, elements)

\* addElements(elements)
AddElements(elements) ==
    /\ Convertible(elements)
    /\ Commit("addElements", <<elements>>, "none", addElements(Cur, elements))

\* removeElements(elements)
RemoveElements(elements) ==
    Commit("removeElements", <<elements>>, "none", removeElements(Cur, elements))

\* destroy()
Destroy == Commit("destroy", <<>>, "none", destroy(Cur))

\* setContent(content, elementIndex?)
SetContent(content, elementIndex) ==
    Commit("setContent", <<content, elementIndex>>, "none",
           setContent(Cur, content, elementIndex))

\* A blur event on an element that carries the editor's listeners.
HandleBlur(element) ==
    /\ element \in page.listening
    /\ RootOf(doc, element) = DOCUMENT
    /\ Commit("blur", <<element>>, "none", handleBlur(Cur, DomEvent("blur", element)))

\* The user edits an editable element that carries the editor's listeners, its
\* content becoming the parse of content, and the input event fires on it.
HandleInput(element, content) ==
    /\ element \in page.listening
    /\ element \in page.contenteditable
    /\ RootOf(doc, element) = DOCUMENT
    /\ Commit("input", <<element>>, "none",
              handleInput(setInnerHTML(Cur, element, content),
                          DomEvent("input", element)))

\* execCommand(name): platform is what document.execCommand returns.
ExecCommand(name, platform) ==
    \E res \in {execCommand(editor, name, platform)} :
        /\ hostCall' = [NoHostCall EXCEPT !.op = "execCommand",
                                          !.args = <<name, platform>>,
                                          !.ret = res.ret, !.log = res.ran,
                                          !.before = Before]
        /\ UNCHANGED <<codecVars, editor, page, events, heard>>

\* commands.register(command)
RegisterCommand(name, command) ==
    /\ editor' = [editor EXCEPT !.commands = commandsRegister(@, name, command)]
    /\ UNCHANGED <<codecVars, page, events, hostCall, heard>>

\* commands.unregister(name)
UnregisterCommand(name) ==
    /\ editor' = [editor EXCEPT !.commands = commandsUnregister(@, name)]
    /\ UNCHANGED <<codecVars, page, events, hostCall, heard>>

\* plugins.register(name, plugin)
RegisterPlugin(name, plugin) ==
    Commit("register", <<name, plugin>>, "none", pluginsRegister(Cur, name, plugin))

\* plugins.unregister(name)
UnregisterPlugin(name) ==
    Commit("unregister", <<name>>, "none", pluginsUnregister(Cur, name))

\* One document for the callers that do not depend on it: a chain of elements.
PageDoc ==
    [parent |-> [n \in Nodes |-> n - 1], nodeType |-> [n \in Nodes |-> ELEMENT_NODE],
     len |-> [n \in Nodes |-> 0]]

InitEmitter ==
    /\ doc = PageDoc
    /\ sel = SelectionOf(<<>>)
    /\ last = NoCall
    /\ focusedElement = NULL
    /\ savedSelection = <<>>
    /\ lastSave = NoSave
    /\ InitHost

NextEmitter ==
    \/ HostIdle /\ \E event \in EmitterEvents, l \in Listeners : On(event, l)
    \/ HostIdle /\ \E event \in EmitterEvents, l \in Listeners : Once(event, l)
    \/ HostIdle /\ \E event \in EmitterEvents, l \in Listeners : Off(event, l)
    \/ HostIdle /\ \E event \in EmitterEvents \cup {"undefined"} :
                     RemoveAllListeners(event)
    \/ HostIdle /\ \E event \in EmitterEvents : Emit(event, <<event>>)
    \/ HostReturn

SpecEmitter == InitEmitter /\ [][NextEmitter]_vars

\* --------------------------------------------------- the Editor's elements
\* The pages an editor is built on: forests of elements, some of them
\* <textarea> (childless, in the document), the childless detached ones after
\* node 1 standing for the elements document.createElement will return.
ElementDocs == { d \in Docs : \A n \in Nodes : d.nodeType[n] = ELEMENT_NODE }

Childless(d, n) == childNodes(d, n) = <<>>

FreeNodes(d) == { n \in Nodes : n > 1 /\ d.parent[n] = NULL /\ Childless(d, n) }

TextareaChoices(d) ==
    SUBSET { n \in Nodes : n > 1 /\ RootOf(d, n) = DOCUMENT /\ Childless(d, n) }

\* The state after new Editor(elements, { extensions }) has returned.
Constructed(w) ==
    /\ ~w.threw
    /\ doc = w.doc
    /\ sel = w.sel
    /\ focusedElement = w.focusedElement
    /\ editor = w.editor
    /\ page = w.page
    /\ events = w.em
    /\ last = NoCall
    /\ savedSelection = <<>>
    /\ lastSave = NoSave
    /\ hostCall = NoHostCall
    /\ heard = NoneHeard

InitLifecycle ==
    \E d \in ElementDocs : \E textareas \in TextareaChoices(d) :
        LET p == NewPage(textareas, FreeNodes(d), FALSE)
        IN  \E elements \in ElementInputsIn(d, p) :
                /\ ConvertibleIn(p, NewEditor, elements)
                /\ Constructed(Construct(d, SelectionOf(<<>>), p, elements, <<>>))

\* The listener a host subscribes with editor.on().
HostListener == [id |-> 1, does |-> "returns"]

\* The indexes a caller passes to setContent: none, or a number.
Indexes == {<<>>} \cup { <<i>> : i \in (0 - 1) .. MaxNodes }

NextLifecycle ==
    \/ HostIdle /\ \E elements \in ElementInputs : AddElements(elements)
    \/ HostIdle /\ \E elements \in ElementInputs : RemoveElements(elements)
    \/ HostIdle /\ Destroy
    \/ HostIdle /\ \E event \in EmitterEvents : On(event, HostListener)
    \/ HostReturn

SpecLifecycle == InitLifecycle /\ [][NextLifecycle]_vars

\* The content calls a host makes on the editor it constructed.
NextContent ==
    \/ HostIdle /\ \E content \in Contents, elementIndex \in Indexes :
                     SetContent(content, elementIndex)
    \/ HostIdle /\ On("change", HostListener)
    \/ HostReturn

SpecContent == InitLifecycle /\ [][NextContent]_vars

\* ------------------------------------------------------------ the registries
\* An editor built on the first element of the page, with no extension or
\* with the PlaceholderExtension.
ExtensionChoices ==
    { <<>>, << [name |-> "placeholder", plugin |-> PlaceholderExtension(TRUE)] >> }

InitRegistry ==
    \E extensions \in ExtensionChoices :
        Constructed(Construct(PageDoc, SelectionOf(<<>>), NewPage({}, {}, FALSE),
                              <<1>>, extensions))

\* What document.execCommand may return.
PlatformResults == {"true", "false"}

NextCommands ==
    \/ HostIdle /\ \E name \in CommandNames, platform \in PlatformResults :
                     ExecCommand(name, platform)
    \/ HostIdle /\ \E name \in CommandNames, command \in CustomCommands :
                     RegisterCommand(name, command)
    \/ HostIdle /\ \E name \in CommandNames : UnregisterCommand(name)
    \/ HostReturn

SpecCommands == InitRegistry /\ [][NextCommands]_vars

\* The values a caller passes as a plugin: objects whose init is absent,
\* returns or throws, with or without a command, the PlaceholderExtension,
\* null and a string.
PluginCommands ==
    { <<>>, << [name |-> "custom", command |-> [execute |-> "true", canExecute |-> "absent"]] >> }

Plugins ==
    { Plugin("object", id, init, FALSE, commands) :
        id \in 1 .. MaxListeners, init \in {"absent", "returns", "throws"},
        commands \in PluginCommands }
      \cup { Plugin("null", 0, "absent", FALSE, <<>>),
             Plugin("string", 0, "absent", FALSE, <<>>),
             PlaceholderExtension(TRUE) }

NextPlugins ==
    \/ HostIdle /\ \E name \in PluginNames, plugin \in Plugins : RegisterPlugin(name, plugin)
    \/ HostIdle /\ \E name \in PluginNames : UnregisterPlugin(name)
    \/ HostReturn

SpecPlugins == InitRegistry /\ [][NextPlugins]_vars

\* ------------------------------------------------ the PlaceholderExtension
\* An editor built on every element of a document, with the
\* PlaceholderExtension, in Firefox or another browser.
InitPlaceholder ==
    \E d \in Docs, hideOnClick \in BOOLEAN, isFirefox \in BOOLEAN :
        /\ AttachedElements(d) # <<>>
        /\ Constructed(Construct(d, SelectionOf(<<>>), NewPage({}, {}, isFirefox),
                                 AttachedElements(d),
                                 << [name |-> "placeholder",
                                     plugin |-> PlaceholderExtension(hideOnClick)] >>))

\* The DOM events the user's actions dispatch on the elements.
NextPlaceholder ==
    \/ HostIdle /\ \E element \in Nodes : HandleFocus(element)
    \/ HostIdle /\ \E element \in Nodes : HandleBlur(element)
    \/ HostIdle /\ \E element \in Nodes, content \in Contents : HandleInput(element, content)
    \/ HostReturn

SpecPlaceholder == InitPlaceholder /\ [][NextPlaceholder]_vars

\* -------------------------------------------------- the focused element
\* An editor built on some elements of a page of elements, with any selection.
InitFocus ==
    \E d \in ElementDocs : \E s \in Selections(d) :
        LET p == NewPage({}, {}, FALSE)
        IN  \E elements \in ElementInputsIn(d, p) :
                Constructed(Construct(d, s, p, elements, <<>>))

\* Focus and blur events, the removal of elements, destroy, and the Editor's
\* two selection methods.
NextFocus ==
    \/ Idle /\ HostIdle /\ \E element \in Nodes : HandleFocus(element)
    \/ Idle /\ HostIdle /\ \E element \in Nodes : HandleBlur(element)
    \/ Idle /\ HostIdle /\ \E element \in ExistingIn(doc, page) : RemoveElements(<<element>>)
    \/ Idle /\ HostIdle /\ Destroy
    \/ Idle /\ HostIdle /\ SaveSelection
    \/ Idle /\ HostIdle /\ RestoreSelection
    \/ Return
    \/ HostReturn

SpecFocus == InitFocus /\ [][NextFocus]_vars

\* ------------------------------------------------- what the claims talk about
\* The text nodes of root's subtree.
TextNodesOf(d, root) ==
    { n \in Nodes : d.nodeType[n] = TEXT_NODE /\ IsDescendantOrSelf(d, n, root) }

\* Text node m lies wholly before the boundary point (n, o) in document order.
WhollyBefore(d, m, n, o) ==
    IF m < n THEN TRUE
    ELSE /\ m > n
         /\ d.nodeType[n] = ELEMENT_NODE
         /\ IsDescendantOrSelf(d, m, n)
         /\ \E i \in 1 .. o : IsDescendantOrSelf(d, m, childNodes(d, n)[i])

\* The number of text characters of root that precede the boundary point (n, o).
CharOffset(d, root, n, o) ==
    SumLen(d, { m \in TextNodesOf(d, root) : WhollyBefore(d, m, n, o) })
        + (IF d.nodeType[n] = TEXT_NODE THEN o ELSE 0)

\* The import walk's counter on reaching text node n: the text of root before n.
CounterAt(d, root, n) == SumLen(d, { m \in TextNodesOf(d, root) : m < n })

\* The first text node of root, at or after node from, whose span
\* [counter, counter + length] contains offset x (NULL when there is none).
SpanHolds(d, root, n, x) ==
    /\ CounterAt(d, root, n) <= x
    /\ x <= CounterAt(d, root, n) + d.len[n]

FirstTextNodeHolding(d, root, x, from) ==
    LET C == { n \in TextNodesOf(d, root) : n >= from /\ SpanHolds(d, root, n, x) }
    IN  IF C = {} THEN NULL ELSE CHOOSE n \in C : \A m \in C : n <= m

\* The last call was an import of a well-formed snapshot into an attached root,
\* on a platform with a selection object that rejected no call.
ImportedInto ==
    /\ last.op = "import"
    /\ last.root # NULL
    /\ last.snap # <<>>
    /\ last.fault = "none"
    /\ last.before.obj
    /\ RootOf(doc, last.root) = DOCUMENT

\* C1: Round-trip identity: when a live range lying inside root is exported,
\* that snapshot imported into the same root and the selection exported again,
\* with no DOM change in between, the second snapshot has the start and the end
\* of the first.
C1_RoundTrip ==
    (last.op = "export" /\ last.chain = 3) =>
        /\ last.ret = "snapshot"
        /\ last.out[1].start = last.s1[1].start
        /\ last.out[1].end = last.s1[1].end

\* A round trip of a range that runs from inside one text node into another.
C1_Witness ==
    /\ last.op = "export" /\ last.chain = 3
    /\ last.s1[1].start > 0
    /\ last.s1[1].end > last.s1[1].start
    /\ last.s1[1].startContainer # last.s1[1].endContainer
    /\ doc.nodeType[last.s1[1].startContainer] = TEXT_NODE
    /\ doc.nodeType[last.s1[1].endContainer] = TEXT_NODE

\* C2: Boundary exactness: importing a snapshot with 0 <= start <= end <= total
\* text length of root (root attached to the document, the platform having a
\* selection object) sets a live range that covers exactly the characters
\* [start, end) of root's text; its start is in the first text node whose span
\* [counter, nodeEnd] contains start, at local offset start - counter, and its
\* end in the first text node at or after that one whose span contains end, at
\* local offset end - counter (a root without text nodes keeps (root, 0)).
C2_BoundaryExactness ==
    (/\ ImportedInto
     /\ last.snap[1].start <= last.snap[1].end
     /\ last.snap[1].end <= TotalTextLength(doc, last.root)) =>
        /\ last.ret = "true"
        /\ rangeCount(sel) = 1
        /\ LET r == sel.ranges[1]
               snap == last.snap[1]
               first == FirstTextNodeHolding(doc, last.root, snap.start, 1)
           IN  /\ RangeInside(doc, r, last.root)
               /\ CharOffset(doc, last.root, r.sc, r.so) = snap.start
               /\ CharOffset(doc, last.root, r.ec, r.eo) = snap.end
               /\ TextNodesOf(doc, last.root) # {} =>
                    /\ r.sc = first
                    /\ r.so = snap.start - CounterAt(doc, last.root, first)
                    /\ r.ec = FirstTextNodeHolding(doc, last.root, snap.end, first)
                    /\ r.eo = snap.end - CounterAt(doc, last.root, r.ec)

\* An import that starts inside one text node and ends inside a later one.
C2_Witness ==
    /\ ImportedInto
    /\ last.ret = "true"
    /\ last.snap[1].start < last.snap[1].end
    /\ last.snap[1].end <= TotalTextLength(doc, last.root)
    /\ rangeCount(sel) = 1
    /\ sel.ranges[1].sc # sel.ranges[1].ec
    /\ sel.ranges[1].so > 0
    /\ sel.ranges[1].eo > 0

\* C3: Graceful degradation: when snapshot.start lies within root's text and
\* snapshot.end exceeds root's total text length, importSelection returns true
\* and the live selection runs from start through the last character of root
\* (the end clamped to the end of the content).
C3_EndClampedToContent ==
    (/\ ImportedInto
     /\ last.snap[1].start <= TotalTextLength(doc, last.root)
     /\ last.snap[1].end > TotalTextLength(doc, last.root)) =>
        /\ last.ret = "true"
        /\ rangeCount(sel) = 1
        /\ CharOffset(doc, last.root, sel.ranges[1].sc, sel.ranges[1].so)
             = last.snap[1].start
        /\ CharOffset(doc, last.root, sel.ranges[1].ec, sel.ranges[1].eo)
             = TotalTextLength(doc, last.root)

\* C4: importSelection returns true only when a start boundary was located:
\* with a non-null root and snapshot it returns false when snapshot.start
\* exceeds root's total text length (no text node contains the start offset),
\* and true when the start boundary was resolved.
C4_TrueOnlyWithStart ==
    (/\ last.op = "import" /\ last.root # NULL /\ last.snap # <<>>
     /\ last.fault = "none") =>
        /\ last.snap[1].start > TotalTextLength(doc, last.root) => last.ret = "false"
        /\ last.foundStart => last.ret = "true"

\* C5: Traversal failure leaves the selection alone: when a step of
\* importSelection fails (the platform rejecting setStart, setEnd or addRange),
\* or the root is detached, importSelection returns false and the live selection
\* is exactly the one that existed before the call (stated for calls made while
\* a live range exists).
C5_FailureLeavesSelection ==
    (/\ last.op = "import" /\ last.root # NULL /\ last.snap # <<>>
     /\ rangeCount(last.before) = 1) =>
        /\ (last.entered /\ last.ret = "false") => sel = last.before
        /\ (last.fault = "none" /\ RootOf(doc, last.root) # DOCUMENT) =>
              (last.ret = "false" /\ sel = last.before)

\* C6: importSelection called with a null snapshot or a null root returns false
\* at once (before any platform range call) and leaves the live selection
\* untouched, whatever the other argument is.
C6_NullInputs ==
    (last.op = "import" /\ (last.snap = <<>> \/ last.root = NULL)) =>
        /\ last.ret = "false"
        /\ ~last.entered
        /\ sel = last.before

\* An import of null into an element while a live range exists, and an import
\* of a snapshot into a null root.
C6_Witness ==
    /\ last.op = "import"
    /\ last.ret = "false"
    /\ rangeCount(last.before) = 1
    /\ \/ last.snap = <<>> /\ last.root # NULL
       \/ last.snap # <<>> /\ last.root = NULL

\* C7: exportSelection returns null exactly when there is no root, the platform
\* has no selection object, or the selection's range count is zero; in every
\* other case it returns a snapshot, and it never raises an error.
C7_ExportNull ==
    (last.op = "export") =>
        /\ last.ret \in {"null", "snapshot"}
        /\ (last.ret = "null") <=>
              (last.root = NULL \/ ~last.before.obj \/ rangeCount(last.before) = 0)
        /\ (last.ret = "null") <=> (last.out = <<>>)

\* An export from an element while the selection object holds no range.
C7_Witness ==
    /\ last.op = "export"
    /\ last.ret = "null"
    /\ last.root # NULL
    /\ last.before.obj
    /\ rangeCount(last.before) = 0

\* The last call exported a live range lying inside root.
ExportedInside ==
    /\ last.op = "export"
    /\ last.ret = "snapshot"
    /\ RangeInside(doc, last.before.ranges[1], last.root)

\* C8: Export offsets: for a live range inside root, start is the number of text
\* characters of root that precede the range's start in document order (text
\* nodes only), and end is start plus the number of text characters inside the
\* range.
C8_ExportOffsets ==
    ExportedInside =>
        LET r == last.before.ranges[1]
            before == CharOffset(doc, last.root, r.sc, r.so)
            within == CharOffset(doc, last.root, r.ec, r.eo) - before
        IN  /\ last.out[1].start = before
            /\ last.out[1].end = last.out[1].start + within

\* An export of a range that starts after some of root's text and selects some,
\* root holding a comment node as well.
C8_Witness ==
    /\ ExportedInside
    /\ last.out[1].start > 0
    /\ last.out[1].end > last.out[1].start
    /\ \E n \in Nodes : doc.nodeType[n] = COMMENT_NODE
                          /\ IsDescendantOrSelf(doc, n, last.root)

\* C9: every snapshot exported for a live range inside root satisfies
\* 0 <= start <= end <= total text length of root.
C9_SnapshotBounds ==
    ExportedInside =>
        /\ 0 <= last.out[1].start
        /\ last.out[1].start <= last.out[1].end
        /\ last.out[1].end <= TotalTextLength(doc, last.root)

\* An export of a non-empty range that starts after some of root's text and
\* ends at the very end of it.
C9_Witness ==
    /\ ExportedInside
    /\ last.out[1].start > 0
    /\ last.out[1].end = TotalTextLength(doc, last.root)
    /\ last.out[1].end > last.out[1].start

\* C10: in every exported snapshot collapsed is true exactly when start = end.
C10_CollapsedIffEqual ==
    (last.op = "export" /\ last.ret = "snapshot") =>
        (last.out[1].collapsed <=> (last.out[1].start = last.out[1].end))

\* C11: Collapsed preservation: for every offset k with 0 <= k <= total text
\* length of root, importing a snapshot with start = end = k (into an attached
\* root, the platform having a selection object) yields a collapsed live
\* selection at character offset k; and a collapsed snapshot that was exported,
\* imported into the same root and exported again comes back with start = end = k.
C11_CollapsedPreserved ==
    /\ (/\ ImportedInto
         /\ last.snap[1].start = last.snap[1].end
         /\ last.snap[1].end <= TotalTextLength(doc, last.root)) =>
            /\ last.ret = "true"
            /\ rangeCount(sel) = 1
            /\ collapsed(sel.ranges[1])
            /\ CharOffset(doc, last.root, sel.ranges[1].sc, sel.ranges[1].so)
                 = last.snap[1].start
    /\ (/\ last.op = "export" /\ last.chain = 3
         /\ last.s1[1].start = last.s1[1].end) =>
            /\ last.ret = "snapshot"
            /\ last.out[1].start = last.s1[1].start
            /\ last.out[1].end = last.s1[1].start
            /\ last.out[1].collapsed

\* A cursor restored at the very end of root's text, between two text nodes of
\* it, and exported again.
C11_Witness ==
    /\ last.op = "export" /\ last.chain = 3
    /\ last.s1[1].start = last.s1[1].end
    /\ last.s1[1].start = TotalTextLength(doc, last.root)
    /\ last.s1[1].start > 0
    /\ Cardinality(TextNodesOf(doc, last.root)) = 2
    /\ collapsed(sel.ranges[1])

\* C12: Idempotent import: importSelection(root, snapshot) called twice in
\* succession, with no DOM change and no other call in between, returns the
\* same value both times and leaves the same live selection (containers and
\* offsets) after the second call as after the first, whatever the live
\* selection was before the first call.
C12_IdempotentImport ==
    (/\ last.op = "import" /\ last.prev.op = "import"
     /\ last.prev.root = last.root /\ last.prev.snap = last.snap) =>
        /\ last.ret = last.prev.ret
        /\ sel = last.before

\* A repeated import of a non-empty selection that starts after some text.
C12_Witness ==
    /\ last.op = "import" /\ last.prev.op = "import"
    /\ last.prev.root = last.root /\ last.prev.snap = last.snap
    /\ last.ret = "true"
    /\ rangeCount(sel) = 1
    /\ sel.ranges[1].so > 0
    /\ ~collapsed(sel.ranges[1])
    /\ sel = last.before

\* The last text node of root in document order (root has one).
LastTextNode(d, root) ==
    CHOOSE n \in TextNodesOf(d, root) : \A m \in TextNodesOf(d, root) : m <= n

\* The last call imported, into a root with a text node, a snapshot whose end
\* is root's total text length.
ImportedEndAtTotal ==
    /\ ImportedInto
    /\ TextNodesOf(doc, last.root) # {}
    /\ last.snap[1].start <= last.snap[1].end
    /\ last.snap[1].end = TotalTextLength(doc, last.root)

\* C13 as stated: when snapshot.end equals root's total text length, the
\* restored end lands in the last text node of root, at local offset that
\* node's text length, for every root that has a text node.
C13_EndInLastTextNode ==
    ImportedEndAtTotal =>
        /\ rangeCount(sel) = 1
        /\ sel.ranges[1].ec = LastTextNode(doc, last.root)
        /\ sel.ranges[1].eo = doc.len[LastTextNode(doc, last.root)]

\* C13 amended: when snapshot.end equals root's total text length, the restored
\* end lands in a text node of root at local offset that node's text length,
\* all of root's text before it: the first text node, at or after the start's,
\* whose span reaches the total.  That is the last text node of root when the
\* last text node is not empty; empty text nodes that trail it are not entered.
C13_EndAtTotal ==
    ImportedEndAtTotal =>
        /\ last.ret = "true"
        /\ rangeCount(sel) = 1
        /\ LET r == sel.ranges[1]
               lastText == LastTextNode(doc, last.root)
           IN  /\ r.ec \in TextNodesOf(doc, last.root)
               /\ r.eo = doc.len[r.ec]
               /\ CharOffset(doc, last.root, r.ec, r.eo)
                    = TotalTextLength(doc, last.root)
               /\ r.ec = FirstTextNodeHolding(doc, last.root, last.snap[1].end, r.sc)
               /\ doc.len[lastText] > 0 => r.ec = lastText
               /\ \A m \in TextNodesOf(doc, last.root) : m > r.ec => doc.len[m] = 0

\* A selection restored from inside the first text node to the end of the
\* second, the last of root.
C13_Witness ==
    /\ ImportedEndAtTotal
    /\ rangeCount(sel) = 1
    /\ sel.ranges[1].sc # sel.ranges[1].ec
    /\ sel.ranges[1].so > 0
    /\ sel.ranges[1].ec = LastTextNode(doc, last.root)
    /\ sel.ranges[1].eo > 0

\* The first text node of root in document order (root has one).
FirstTextNode(d, root) ==
    CHOOSE n \in TextNodesOf(d, root) : \A m \in TextNodesOf(d, root) : n <= m

\* C14: a snapshot with start = 0 is restored anchored at the very first
\* character of root (offset 0 of root's first text node); when root has no
\* text node at all the range stays the zero-length range at offset 0 of root
\* itself, is applied as the live selection, and importSelection returns true
\* (root attached, the platform having a selection object).
C14_StartZero ==
    (ImportedInto /\ last.snap[1].start = 0) =>
        /\ last.ret = "true"
        /\ rangeCount(sel) = 1
        /\ LET r == sel.ranges[1]
           IN  IF TextNodesOf(doc, last.root) = {}
               THEN r = [sc |-> last.root, so |-> 0, ec |-> last.root, eo |-> 0]
               ELSE /\ r.sc = FirstTextNode(doc, last.root)
                    /\ r.so = 0
                    /\ CharOffset(doc, last.root, r.sc, r.so) = 0

\* An import of start 0 into a root that has children but no text node, while
\* another range was selected.
C14_Witness ==
    /\ ImportedInto
    /\ last.snap[1].start = 0
    /\ TextNodesOf(doc, last.root) = {}
    /\ childNodes(doc, last.root) # <<>>
    /\ last.ret = "true"
    /\ rangeCount(last.before) = 1
    /\ rangeCount(sel) = 1
    /\ sel # last.before

\* The nodes the while loop of importSelection takes as node, in order, with
\* the walk state it ends in: the loop run again from the start of root.
RECURSIVE LoopFrom(_, _, _, _)
LoopFrom(d, snap, w, nodes) ==
    IF w.threw \/ w.stop \/ w.node = NULL THEN [w |-> w, nodes |-> nodes]
    ELSE LoopFrom(d, snap, WalkStep(d, snap, "none", w), Append(nodes, w.node))

Loop(d, root, snap) ==
    LoopFrom(d, snap,
             [range |-> [sc |-> root, so |-> 0, ec |-> root, eo |-> 0], node |-> root,
              nodeStack |-> <<>>, charIndex |-> 0, foundStart |-> FALSE,
              stop |-> FALSE, threw |-> FALSE],
             <<>>)

\* A depth-first pre-order traversal of the trees rooted at the nodes of q.
RECURSIVE PreOrder(_, _)
PreOrder(d, q) ==
    IF q = <<>> THEN <<>>
    ELSE <<Head(q)>> \o PreOrder(d, childNodes(d, Head(q)) \o Tail(q))

\* The element and text nodes of a sequence of nodes, in its order.
ElementsAndText(d, q) ==
    LET Kept(n) == d.nodeType[n] \in {ELEMENT_NODE, TEXT_NODE}
    IN  SelectSeq(q, Kept)

SeqSumLen(d, q) == SumLen(d, { q[i] : i \in 1 .. Len(q) })

\* The forest without its comment nodes (each removed from its parent).
StripComments(d) ==
    [d EXCEPT !.parent = [n \in Nodes |->
        IF d.nodeType[n] = COMMENT_NODE THEN NULL ELSE d.parent[n]]]

\* Comments add nothing to the counter, are no boundary container, and do not
\* change the restored selection.
CommentsInvisible ==
    LET run == Loop(doc, last.root, last.snap[1])
        visited == ElementsAndText(doc, run.nodes)
    IN  /\ run.w.charIndex
             = SeqSumLen(doc, SelectSeq(visited, LAMBDA n : doc.nodeType[n] = TEXT_NODE))
        /\ doc.nodeType[run.w.range.sc] # COMMENT_NODE
        /\ doc.nodeType[run.w.range.ec] # COMMENT_NODE
        /\ ImportedInto =>
             /\ rangeCount(sel) = 1
             /\ run.w.range = sel.ranges[1]
             /\ importSelection(StripComments(doc), removeAllRanges(last.before),
                                last.root, last.snap, "none").sel = sel

\* The last call was an import that ran its walk.
ImportWalked ==
    /\ last.op = "import" /\ last.root # NULL /\ last.snap # <<>>
    /\ last.fault = "none"

EmptyTextNodesOf(d, root) == { n \in TextNodesOf(d, root) : d.len[n] = 0 }

C17_Frame ==
    [][ (last' # last /\ last'.op # "none") =>
            /\ doc' = doc
            /\ last'.before = sel
            /\ last'.op = "export" => sel' = sel
            /\ (last'.op = "import" /\ last.op = "export" /\ last'.chain = 2) =>
                  (last'.snap = last.out /\ last'.s1 = last.s1)
      ]_vars

\* An export of a range that selects text after the start of root's text, the
\* live selection being after the call what it was before.
C17_Witness ==
    /\ last.op = "export"
    /\ last.ret = "snapshot"
    /\ last.out[1].start > 0
    /\ last.out[1].end > last.out[1].start
    /\ last.before.ranges[1].sc # last.root
    /\ sel = last.before

\* C18: no internal exception escapes: for every root, snapshot and platform
\* behaviour, platform range and selection calls that fail included,
\* exportSelection ends by returning null or a snapshot and importSelection
\* ends by returning true or false.
C18_NoExceptionEscapes ==
    /\ last.op = "export" => last.ret \in {"null", "snapshot"}
    /\ last.op = "import" => last.ret \in {"true", "false"}

\* C19: Host pairing of export and import: after any sequence of focus events,
\* saveSelection() and restoreSelection() calls, when the most recent
\* saveSelection() returned null, restoreSelection() returns false without
\* calling importSelection or touching the live selection (no earlier snapshot
\* is restored); savedSelection is non-null only if an element has been focused,
\* and is null after a saveSelection() that returned null and before the first.
C19_NullSaveNotRestored ==
    /\ (last.op = "restore" /\ lastSave.ret = "null") =>
          /\ last.ret = "false"
          /\ last.snap = <<>>
          /\ ~last.entered
          /\ sel = last.before
    /\ savedSelection # <<>> => focusedElement # NULL
    /\ lastSave.ret \in {"none", "null"} => savedSelection = <<>>

\* A restoreSelection() after a saveSelection() that returned null on a focused
\* element that has text, an earlier saveSelection() on that element having
\* returned a snapshot (the element focused, no range selected any more).
C19_Witness ==
    /\ last.op = "restore"
    /\ last.ret = "false"
    /\ lastSave.ret = "null"
    /\ lastSave.element # NULL
    /\ focusedElement = lastSave.element
    /\ TotalTextLength(doc, focusedElement) > 0
    /\ sel.obj

\* C20: a snapshot is only applied relative to the root it was exported from:
\* when the focused element has changed between saveSelection() and
\* restoreSelection(), or that element's total text length has shrunk below
\* snapshot.end, restoreSelection() returns false and the offsets are not
\* applied (the live selection stays as it was).
C20_OtherRootNotRestored ==
    (/\ last.op = "restore"
     /\ savedSelection # <<>>
     /\ \/ focusedElement # lastSave.element
        \/ TotalTextLength(doc, focusedElement) < savedSelection[1].end) =>
        /\ last.ret = "false"
        /\ sel = last.before

\* The nodes of root's subtree.
SubtreeOf(d, root) == { n \in Nodes : IsDescendantOrSelf(d, n, root) }

\* The text node where the import walk sets the end boundary: the first one, at
\* or after the node where it sets the start, whose span holds snap.end (NULL
\* when the walk sets no end).
EndNode(d, root, snap) ==
    LET s == FirstTextNodeHolding(d, root, snap.start, 0)
    IN  IF s = NULL THEN NULL ELSE FirstTextNodeHolding(d, root, snap.end, s)

\* C30: importSelection terminates on a finite root tree: the loop takes each
\* node of root's subtree at most once and takes no other node; it stops at the
\* node where the end boundary is set, visiting no later node; otherwise it
\* ends with the stack empty, every node taken; after the loop the range is
\* applied once (the selection holds that one range).
C30_WalkTerminates ==
    ImportWalked =>
        LET run == Loop(doc, last.root, last.snap[1])
            nodes == run.nodes
            endNode == EndNode(doc, last.root, last.snap[1])
        IN  /\ \A i, j \in 1 .. Len(nodes) : nodes[i] = nodes[j] => i = j
            /\ \A i \in 1 .. Len(nodes) : nodes[i] \in SubtreeOf(doc, last.root)
            /\ Len(nodes) <= Cardinality(SubtreeOf(doc, last.root))
            /\ endNode # NULL =>
                  /\ last.stop
                  /\ nodes[Len(nodes)] = endNode
                  /\ run.w.range.ec = endNode
                  /\ \A i \in 1 .. Len(nodes) : nodes[i] <= endNode
            /\ endNode = NULL =>
                  /\ ~last.stop
                  /\ run.w.node = NULL
                  /\ run.w.nodeStack = <<>>
                  /\ { nodes[i] : i \in 1 .. Len(nodes) } = SubtreeOf(doc, last.root)
            /\ ImportedInto =>
                  /\ last.ret = "true"
                  /\ rangeCount(sel) = 1
                  /\ sel.ranges[1] = run.w.range

\* An import that stopped at the text node of its end boundary with a later
\* node of root left unvisited.
C30_Witness ==
    /\ ImportedInto
    /\ last.stop
    /\ last.ret = "true"
    /\ rangeCount(sel) = 1
    /\ \E n \in SubtreeOf(doc, last.root) : n > sel.ranges[1].ec
    /\ Len(Loop(doc, last.root, last.snap[1]).nodes) >= 2

\* The registrations of an emitter for an event: <<kind, listener>>.
RegisteredFor(em, event) ==
    { <<"on", em.listeners[event][i]>> : i \in 1 .. Len(em.listeners[event]) }
        \cup { <<"once", em.onceListeners[event][i]>> :
                 i \in 1 .. Len(em.onceListeners[event]) }

\* The number of calls a dispatch made for one registration.
CallsOf(log, event, reg) ==
    IF reg[1] = "on" THEN OnCalls(log, event, reg[2]) ELSE OnceCalls(log, event, reg[2])

\* C25: a listener registered with once() is invoked at most once in total over
\* any sequence of emits of its event, a re-entrant emit made by a listener
\* during the first emit included.
C25_OnceAtMostOnce ==
    \A e \in EmitterEvents, l \in Listeners : heard[e][l] <= 1

\* During the last emit some listener threw and, for each registration whose
\* listener threw, every other registration of the event at the start of the
\* emit was called exactly once.
OthersCalledOnce ==
    LET regs == RegisteredFor(hostCall.before[1].events, hostCall.event)
        throwers == { r \in regs : r[2].does = "throws" }
    IN  \A t \in throwers : \A r \in regs \ {t} :
            CallsOf(hostCall.log, hostCall.event, r) = 1

C21_EditableIffManaged ==
    /\ \A n \in Nodes :
          n \in page.contenteditable
              <=> \E i \in 1 .. Len(getElements(editor)) : getElements(editor)[i] = n
    /\ hostCall.op = "destroy" =>
          /\ getElements(editor) = <<>>
          /\ \A i \in 1 .. Len(hostCall.before[1].editor.elements) :
                hostCall.before[1].editor.elements[i].element \notin page.contenteditable
          /\ page.contenteditable = {}

\* The last call was setContent(content) without an index.
SetAll == hostCall.op = "setContent" /\ hostCall.args[2] = <<>>

\* The last call was setContent(content, i) with i naming no element.
SetNone ==
    /\ hostCall.op = "setContent"
    /\ hostCall.args[2] # <<>>
    /\ ElementAt(hostCall.before[1].editor.elements, hostCall.args[2][1]) = NULL

\* The call left everything as it was and emitted nothing.
NothingDone ==
    /\ Before = hostCall.before
    /\ hostCall.emitted = <<>>
    /\ hostCall.log = <<>>

\* C22 as stated: setContent(content) without an index sets the content of
\* every managed element to content and emits exactly one 'change' event
\* carrying content, after which getContent() returns content for every
\* element; setContent(content, i) with an index that names no element changes
\* nothing and emits no event.
C22_ContentSet ==
    /\ SetAll =>
          /\ hostCall.emitted = << <<"change", <<hostCall.args[1]>> >> >>
          /\ getContent(Cur, <<>>)
               = [i \in 1 .. Len(editor.elements) |-> Html(hostCall.args[1])]
          /\ \A i \in 1 .. Len(editor.elements) :
                getContent(Cur, <<i - 1>>) = Html(hostCall.args[1])
    /\ SetNone => NothingDone

\* C22 amended: setContent(content) without an index sets the content of every
\* managed element to the parse of content and emits exactly one 'change'
\* event carrying content, after which getContent() returns for every element
\* the serialization of that parse (content itself when content is what the
\* platform serializes); setContent(content, i) with an index that names no
\* element changes nothing and emits no event.
C22_ParsedContentSet ==
    /\ SetAll =>
          /\ hostCall.emitted = << <<"change", <<hostCall.args[1]>> >> >>
          /\ getContent(Cur, <<>>)
               = [i \in 1 .. Len(editor.elements) |-> Html(Normal(hostCall.args[1]))]
          /\ \A i \in 1 .. Len(editor.elements) :
                getContent(Cur, <<i - 1>>) = Html(Normal(hostCall.args[1]))
          /\ \A i \in 1 .. Len(hostCall.log) :
                hostCall.log[i].args = <<hostCall.args[1]>>
          /\ Normal(hostCall.args[1]) = hostCall.args[1] =>
                getContent(Cur, <<>>)
                  = [i \in 1 .. Len(editor.elements) |-> Html(hostCall.args[1])]
    /\ SetNone => NothingDone

\* setContent('<p>a') on an editor of two elements, one inside the other, with
\* a 'change' listener that was called once.
C22_Witness ==
    /\ SetAll
    /\ hostCall.args[1] = "<p>a"
    /\ Len(editor.elements) = 2
    /\ \E i, j \in 1 .. 2 :
          hostCall.before[1].doc.parent[editor.elements[i].element]
              = editor.elements[j].element
    /\ Len(hostCall.log) = 1
    /\ hostCall.log[1].event = "change"

\* C27: destroy() removes all event listeners before it emits 'destroy', so no
\* listener subscribed to 'destroy' before the call is invoked with that
\* event; a second destroy() call changes nothing and emits nothing.
C27_DestroyUnheard ==
    hostCall.op = "destroy" =>
        /\ \A i \in 1 .. Len(hostCall.log) :
              hostCall.log[i].event = "destroy" =>
                  <<hostCall.log[i].kind, hostCall.log[i].listener>>
                      \notin RegisteredFor(hostCall.before[1].events, "destroy")
        /\ ~hostCall.before[1].editor.isDestroyed =>
              /\ \A e \in EventNames : listenerCount(events, e) = 0
              /\ hostCall.emitted = << <<"destroy", <<"editor">> >> >>
              /\ editor.isDestroyed
        /\ hostCall.before[1].editor.isDestroyed => NothingDone

\* A first destroy() of an editor with a listener subscribed to 'destroy' and
\* one subscribed to 'change'.
C27_Witness ==
    /\ hostCall.op = "destroy"
    /\ ~hostCall.before[1].editor.isDestroyed
    /\ hostCall.before[1].events.listeners["destroy"] # <<>>
    /\ hostCall.before[1].events.listeners["change"] # <<>>
    /\ hostCall.emitted # <<>>
    /\ hostCall.log = <<>>

\* C23: Editor.execCommand(name, value) returns false without running any
\* command when name is not registered or when the command's canExecute
\* returns false; otherwise it runs the command's execute exactly once and
\* returns exactly its result (true for a default command such as 'bold' when
\* the platform execCommand reports success).
C23_ExecCommand ==
    hostCall.op = "execCommand" =>
        LET name == hostCall.args[1]
            platform == hostCall.args[2]
            command == hostCall.before[1].editor.commands[name]
        IN  /\ (command = NoCommand \/ command.canExecute = "false") =>
                  /\ hostCall.ret = "false"
                  /\ hostCall.log = <<>>
            /\ (command # NoCommand /\ command.canExecute # "false") =>
                  /\ hostCall.log = <<name>>
                  /\ command.execute \in {"true", "false"} =>
                        hostCall.ret = command.execute
                  /\ command.execute = "platform" => hostCall.ret = platform
            /\ (command = registerDefaultCommands["bold"] /\ platform = "true") =>
                  hostCall.ret = "true"
            /\ editor = hostCall.before[1].editor

\* execCommand of a registered command whose execute would return true and
\* whose canExecute returns false.
C23_Witness ==
    /\ hostCall.op = "execCommand"
    /\ hostCall.before[1].editor.commands[hostCall.args[1]]
          = [execute |-> "true", canExecute |-> "false"]
    /\ hostCall.ret = "false"
    /\ hostCall.log = <<>>

\* The register call failed for one of the three reasons of the claim.
RegisterFails ==
    \/ pluginsHas(hostCall.before[1].editor.plugins, hostCall.args[1])
    \/ hostCall.args[2].kind \in {"null", "string"}
    \/ hostCall.args[2].init = "throws"

\* C28: PluginManager.register(name, plugin) is atomic on failure: if name is
\* already registered, plugin is not an object, or plugin.init throws, the
\* error is thrown to the caller and the set of registered plugins (and the
\* plugin stored under each name) is the same as before the call; no plugin
\* whose init failed is ever reported by has()/get().
C28_RegisterAtomic ==
    /\ hostCall.op = "register" =>
          /\ RegisterFails => hostCall.threw
          /\ hostCall.threw =>
                /\ editor.plugins = hostCall.before[1].editor.plugins
                /\ \A name \in PluginNames :
                      /\ pluginsHas(editor.plugins, name)
                           = pluginsHas(hostCall.before[1].editor.plugins, name)
                      /\ pluginsGet(editor.plugins, name)
                           = pluginsGet(hostCall.before[1].editor.plugins, name)
    /\ \A name \in PluginNames :
          pluginsHas(editor.plugins, name) =>
              /\ pluginsGet(editor.plugins, name) # <<>>
              /\ pluginsGet(editor.plugins, name)[1].init # "throws"

\* register of an object whose init throws, under a free name, beside a
\* plugin registered under the other name.
C28_Witness ==
    /\ hostCall.op = "register"
    /\ hostCall.args[2].kind = "object"
    /\ hostCall.args[2].init = "throws"
    /\ ~pluginsHas(hostCall.before[1].editor.plugins, hostCall.args[1])
    /\ hostCall.before[1].editor.plugins # <<>>
    /\ hostCall.threw
    /\ ~pluginsHas(editor.plugins, hostCall.args[1])

\* The element has no text and no img/blockquote/ul/ol/table.
IsBlank(element) ==
    /\ ~hasText(doc, page, element)
    /\ ~hasBlockElements(doc, page, element)

\* C24: with hideOnClick enabled (the default), when a managed editor element
\* receives focus the PlaceholderExtension removes the placeholder classes
\* ('mrte-placeholder' and 'mrte-placeholder-relative') from that element, and
\* after an input or blur event the placeholder class is present exactly when
\* the element has no text and no img/blockquote/ul/ol/table.
C24_PlaceholderFollows ==
    (/\ PlaceholderOf(editor).kind = "placeholder"
     /\ PlaceholderOf(editor).hideOnClick
     /\ hostCall.op \in {"focus", "input", "blur"}
     /\ MapHas(editor.elements, hostCall.args[1])) =>
        LET element == hostCall.args[1]
        IN  /\ hostCall.op = "focus" => page.classList[element] = "none"
            /\ hostCall.op \in {"input", "blur"} =>
                  (page.classList[element] # "none" <=> IsBlank(element))

\* A call to the editor or a DOM event is made by this step.
HostCalled(ops) == hostCall' # hostCall /\ hostCall'.op \in ops

\* C29: the editor's focused element is changed only by a focus event on a
\* managed element: blur, removeElements and destroy leave it unchanged, so
\* after the focused element has been removed (or the editor destroyed)
\* getFocusedElement() still returns it and saveSelection()/restoreSelection()
\* still export from and import into that unmanaged element.
C29_FocusFrame ==
    [][/\ focusedElement' # focusedElement =>
              /\ HostCalled({"focus"})
              /\ MapHas(editor.elements, hostCall'.args[1])
       /\ HostCalled({"blur", "removeElements", "destroy"}) =>
              focusedElement' = focusedElement
       /\ (last' # last /\ last'.op \in {"save", "restore"}) =>
              /\ last'.root = focusedElement
              /\ focusedElement' = focusedElement]_vars

====
